---- MODULE Spec2Model ----
(***************************************************************************)
(* Model of the paper-bridge cleaner: the cascading deletion of a          *)
(* document's subgraph from the property graph (NeptuneClient) and of its  *)
(* records from the search indices (OpenSearchClient).                     *)
(*                                                                         *)
(* The graph store is a set of labelled vertices and labelled directed     *)
(* edges.  A Gremlin traversal is a bag of traversers (vertex -> how many  *)
(* traversers sit on it); every step of the queries in aws_helpers.py is   *)
(* an operator on such bags, and every query is one atomic step against    *)
(* the store.  A failed query has no effect on the store.                  *)
(***************************************************************************)
EXTENDS Integers, Sequences, FiniteSets, TLC

\* ------------------------------------------------------------------ bounds
\* how many queries may fail in one behaviour
MaxFailures == 1
\* how many characters of a seed date string may be edited
MaxEdits == 1
\* how many range deletions run in succession
MaxRuns == 2
\* entries of a results list handed to summarize_deletion_results
MaxResults == 3

\* ------------------------------------------------------- the graph universe
Docs == {"A", "B", "C"}
Sources == {"sA", "sB", "sC"}
Chunks == {"cA1", "cA2", "cB", "cC"}
Topics == {"tA", "tB", "tC"}
Statements == {"stA1", "stA2", "stB", "stC"}
Facts == {"f1", "f2"}
Entities == {"e1", "e2"}
Vertices == Sources \cup Chunks \cup Topics \cup Statements \cup Facts \cup Entities

\* vertex label, as hasLabel(...) and has('__Source__', ...) read it
LabelOf(v) ==
    IF v \in Sources THEN "__Source__"
    ELSE IF v \in Chunks THEN "__Chunk__"
    ELSE IF v \in Topics THEN "__Topic__"
    ELSE IF v \in Statements THEN "__Statement__"
    ELSE IF v \in Facts THEN "__Fact__"
    ELSE "__Entity__"

\* the paper_id property of a Source vertex
PaperIdOf(v) ==
    IF v = "sA" THEN "A" ELSE IF v = "sB" THEN "B" ELSE IF v = "sC" THEN "C" ELSE "none"

\* the document a Chunk, Topic or Statement was extracted from (Section 3 of
\* the design: these tiers belong to exactly one Source)
OwnerOf(v) ==
    IF v \in {"sA", "cA1", "cA2", "tA", "stA1", "stA2"} THEN "A"
    ELSE IF v \in {"sB", "cB", "tB", "stB"} THEN "B"
    ELSE IF v \in {"sC", "cC", "tC", "stC"} THEN "C"
    ELSE "none"

\* ids a caller may pass: existing documents, one that never existed, the empty id
PaperIds == {"A", "B", "Z", ""}

\* ------------------------------------------------------ Gremlin traversals
\* A bag of traversers is a set of pairs <<vertex, n>>, n > 0 traversers on it.
RECURSIVE SumPairs(_)
SumPairs(T) ==
    IF T = {} THEN 0
    ELSE LET x == CHOOSE y \in T : TRUE IN x[2] + SumPairs(T \ {x})

\* the bag that puts M(v) traversers on each vertex v
BagOf(M(_)) == {<<v, M(v)>> : v \in {u \in Vertices : M(u) > 0}}

\* mutant of HasSource: the paper_id test is missing
HasSource_AnyPaper(Gr, p) == {<<v, 1>> : v \in {u \in Gr.V : u \in Sources}}

\* g.V().has(label, 'paper_id', value)
HasSource(Gr, p) ==
    {<<v, 1>> : v \in {u \in Gr.V : u \in Sources /\ PaperIdOf(u) = p}}

\* .in(labels...): one traverser per incoming edge of each traverser's vertex
InStep(Gr, T, labels) ==
    BagOf(LAMBDA u :
        SumPairs({<<t[1], t[2] * Cardinality({l \in labels : <<u, l, t[1]>> \in Gr.E})>> :
                  t \in T}))

\* .out(labels...): one traverser per outgoing edge
OutStep(Gr, T, labels) ==
    BagOf(LAMBDA u :
        SumPairs({<<t[1], t[2] * Cardinality({l \in labels : <<t[1], l, u>> \in Gr.E})>> :
                  t \in T}))

\* .hasLabel(label)
HasLabel(T, label) == {t \in T : LabelOf(t[1]) = label}

\* .has('__Source__', 'paper_id', value) in the middle of a traversal
HasSourceStep(T, p) == {t \in T : t[1] \in Sources /\ PaperIdOf(t[1]) = p}

\* .dedup()
Dedup(T) == {<<t[1], 1>> : t \in T}

\* .filter(P)
FilterStep(T, P(_)) == {t \in T : P(t[1])}

\* .union(a, b)
UnionStep(T1, T2) ==
    BagOf(LAMBDA u : SumPairs({t \in T1 : t[1] = u}) + SumPairs({t \in T2 : t[1] = u}))

\* .count()
CountStep(T) == SumPairs(T)

\* a bag holding one traverser on v (the start of an anonymous traversal __)
Anon(v) == {<<v, 1>>}

\* the vertices a bag sits on
Support(T) == {t[1] : t \in T}

\* .drop(): the vertices go, and every edge incident to them
DropStep(Gr, T) ==
    [V |-> Gr.V \ Support(T),
     E |-> {e \in Gr.E : e[1] \notin Support(T) /\ e[3] \notin Support(T)}]

\* ------------------------------------------- the queries of delete_document
\* g.V().has('__Source__','paper_id',p).in('__EXTRACTED_FROM__').hasLabel('__Chunk__')
ToChunks(Gr, p) ==
    HasLabel(InStep(Gr, HasSource(Gr, p), {"__EXTRACTED_FROM__"}), "__Chunk__")

\* ... .in('__MENTIONED_IN__').hasLabel('__Topic__')
ToTopics(Gr, p) ==
    HasLabel(InStep(Gr, ToChunks(Gr, p), {"__MENTIONED_IN__"}), "__Topic__")

\* ... .in('__BELONGS_TO__').hasLabel('__Statement__')
ToStatements(Gr, p) ==
    HasLabel(InStep(Gr, ToTopics(Gr, p), {"__BELONGS_TO__"}), "__Statement__")

\* connect_queries["connected_facts"]
connected_facts(Gr, p) ==
    CountStep(Dedup(HasLabel(InStep(Gr, ToStatements(Gr, p), {"__SUPPORTS__"}), "__Fact__")))

\* connect_queries["connected_entities"]
connected_entities(Gr, p) ==
    LET facts == HasLabel(InStep(Gr, ToStatements(Gr, p), {"__SUPPORTS__"}), "__Fact__")
    IN  CountStep(Dedup(HasLabel(UnionStep(OutStep(Gr, facts, {"__SUBJECT__"}),
                                           OutStep(Gr, facts, {"__OBJECT__"})),
                                 "__Entity__")))

\* mutant of StatementOwnedFilter: the walk back to the Source follows the
\* edges outwards (Statement -> Topic -> Chunk -> Source)
StatementOwnedFilter_Out(Gr, s, p) ==
    CountStep(HasSourceStep(
        OutStep(Gr, OutStep(Gr, OutStep(Gr, Anon(s), {"__BELONGS_TO__"}),
                            {"__MENTIONED_IN__"}),
                {"__EXTRACTED_FROM__"}),
        p)) > 0

\* The inner filter on a Statement s reached by out('__SUPPORTS__'):
\*   __.in('__BELONGS_TO__').in('__MENTIONED_IN__').in('__EXTRACTED_FROM__')
\*     .has('__Source__', 'paper_id', p)
\* filter(traversal) keeps s when the traversal yields at least one traverser.
StatementOwnedFilter(Gr, s, p) ==
    CountStep(HasSourceStep(
        InStep(Gr, InStep(Gr, InStep(Gr, Anon(s), {"__BELONGS_TO__"}),
                         {"__MENTIONED_IN__"}),
               {"__EXTRACTED_FROM__"}),
        p)) > 0

\* mutant of FactExclusiveFilter: no exclusivity test at all
FactExclusiveFilter_Absent(Gr, f, p) == TRUE

\* The filter on a Fact f:
\*   __.out('__SUPPORTS__').filter(<StatementOwnedFilter>).count()
\*     .is(__.out('__SUPPORTS__').count())
\* read as: the number of supported Statements that pass the inner filter
\* equals the number of Statements the Fact supports.
FactExclusiveFilter(Gr, f, p) ==
    CountStep(FilterStep(OutStep(Gr, Anon(f), {"__SUPPORTS__"}),
                         LAMBDA s : StatementOwnedFilter(Gr, s, p)))
    = CountStep(OutStep(Gr, Anon(f), {"__SUPPORTS__"}))

\* The filter on an Entity e: __.in('__SUBJECT__','__OBJECT__').count().is(1)
EntityFanInFilter(Gr, e) ==
    CountStep(InStep(Gr, Anon(e), {"__SUBJECT__", "__OBJECT__"})) = 1

\* ... .dedup().in('__SUPPORTS__').hasLabel('__Fact__').filter(<FactExclusiveFilter>)
ExclusiveFacts(Gr, p) ==
    FilterStep(HasLabel(InStep(Gr, Dedup(ToStatements(Gr, p)), {"__SUPPORTS__"}), "__Fact__"),
               LAMBDA f : FactExclusiveFilter(Gr, f, p))

\* mutant of execution_order: the Source vertex is dropped before its Chunks
execution_order_SourceFirst ==
    <<"entities", "facts", "statements", "topics", "source", "chunks">>

execution_order == <<"entities", "facts", "statements", "topics", "chunks", "source">>

\* delete_queries[entity_type] up to, and without, its final .drop()
delete_queries(Gr, entity_type, p) ==
    CASE entity_type = "entities" ->
            Dedup(FilterStep(
                HasLabel(UnionStep(OutStep(Gr, ExclusiveFacts(Gr, p), {"__SUBJECT__"}),
                                   OutStep(Gr, ExclusiveFacts(Gr, p), {"__OBJECT__"})),
                         "__Entity__"),
                LAMBDA e : EntityFanInFilter(Gr, e)))
      [] entity_type = "facts" -> Dedup(ExclusiveFacts(Gr, p))
      [] entity_type = "statements" -> Dedup(ToStatements(Gr, p))
      [] entity_type = "topics" -> ToTopics(Gr, p)
      [] entity_type = "chunks" -> ToChunks(Gr, p)
      [] entity_type = "source" -> HasSource(Gr, p)

\* count_query = delete_query.replace(".drop()", ".count()")
count_query(Gr, entity_type, p) == CountStep(delete_queries(Gr, entity_type, p))

\* the delete query itself: the store after it
delete_query(Gr, entity_type, p) == DropStep(Gr, delete_queries(Gr, entity_type, p))

\* -------------------------------------------------------------- date strings
\* A Python str is the sequence of its characters.
Digits == {"0", "1", "2", "3", "4", "5", "6", "7", "8", "9"}

\* ord(ch) of the characters the model uses
CharCode(ch) ==
    CASE ch = "\n" -> 10 [] ch = " " -> 32 [] ch = "-" -> 45
      [] ch = "0" -> 48 [] ch = "1" -> 49 [] ch = "2" -> 50 [] ch = "3" -> 51
      [] ch = "4" -> 52 [] ch = "5" -> 53 [] ch = "6" -> 54 [] ch = "7" -> 55
      [] ch = "8" -> 56 [] ch = "9" -> 57
      [] ch = "J" -> 74 [] ch = "a" -> 97 [] ch = "n" -> 110

\* the pattern ^\d{4}-\d{2}-\d{2} matched at position 1 (re.match)
MatchesShape(date_str) ==
    /\ Len(date_str) >= 10
    /\ \A i \in {1, 2, 3, 4, 6, 7, 9, 10} : date_str[i] \in Digits
    /\ date_str[5] = "-" /\ date_str[8] = "-"

\* mutant of _is_valid_date_format: the empty string is not refused
is_valid_date_format_NoEmptyTest(date_str) ==
    date_str = <<>> \/ MatchesShape(date_str)

\* _is_valid_date_format: "not date_str" refuses the empty string; $ matches at
\* the end of the string and just before a newline that ends it
is_valid_date_format(date_str) ==
    /\ date_str # <<>>
    /\ MatchesShape(date_str)
    /\ \/ Len(date_str) = 10
       \/ Len(date_str) = 11 /\ date_str[11] = "\n"

\* str comparison, as between(...) and the range filter order the dates
RECURSIVE StrLess(_, _)
StrLess(a, b) ==
    IF b = <<>> THEN FALSE
    ELSE IF a = <<>> THEN TRUE
    ELSE IF Head(a) = Head(b) THEN StrLess(Tail(a), Tail(b))
    ELSE CharCode(Head(a)) < CharCode(Head(b))

StrLeq(a, b) == a = b \/ StrLess(a, b)

\* ---------------------------------------------------------------- the state
VARIABLES
    G,                 \* the graph store: [V: vertices, E: edges <<from, label, to>>]
    G0,                \* the graph as ingestion left it (history)
    pc,                \* per call: where delete_document stands
    paper_id,          \* per call: its argument
    connection_stats,  \* per call: connect query name -> [err, n]
    results,           \* per call: deleted count per finished tier, in execution order
    tier,              \* per call: index into execution_order
    count_value,       \* per call: the last count read
    report,            \* per call: the returned dict, or NoReport
    log,               \* per call: the queries issued so far (history)
    dropped,           \* per call: the vertices its own drops removed (history)
    found,             \* per call: a Source with its id existed when it started (history)
    failed_at,         \* per call: the query that failed, or "none" (history)
    failures,          \* queries failed so far
    overlapped,        \* call 2 started while call 1 was in progress (history)
    base_date,         \* document -> the base_date of its Source and of its records
    index,             \* index name -> [exists, recs: document -> records held]
    last,              \* the engine call that ran last: arguments, result, stores before
    prev,              \* the engine call before it
    nruns,             \* engine calls run so far
    date_str,          \* the string handed to _is_valid_date_format
    valid,             \* what it returned ("unset" before the call)
    edits,             \* characters of date_str edited so far
    arg,               \* the arguments of a call of a pure function
    out                \* what it returned

cvars == <<pc, paper_id, connection_stats, results, tier, count_value,
           report, log, dropped, found, failed_at, overlapped>>
rvars == <<base_date, index, last, prev, nruns>>
dvars == <<date_str, valid, edits>>
pvars == <<arg, out>>
vars == <<G, G0, failures, cvars, rvars, dvars, pvars>>

\* two callers of delete_document that may overlap
Calls == {1, 2}

NoReport == [status |-> "none"]
Unset == [err |-> FALSE, n |-> 0]

\* --------------------------------------------------- graphs ingestion builds
\* Chunk -> Source, Topic -> Chunk, Statement -> Topic (Section 3)
SkeletonE ==
    {<<"cA1", "__EXTRACTED_FROM__", "sA">>, <<"cA2", "__EXTRACTED_FROM__", "sA">>,
     <<"cB", "__EXTRACTED_FROM__", "sB">>, <<"cC", "__EXTRACTED_FROM__", "sC">>,
     <<"tA", "__MENTIONED_IN__", "cA1">>,
     <<"tB", "__MENTIONED_IN__", "cB">>, <<"tC", "__MENTIONED_IN__", "cC">>,
     <<"stA1", "__BELONGS_TO__", "tA">>, <<"stA2", "__BELONGS_TO__", "tA">>,
     <<"stB", "__BELONGS_TO__", "tB">>, <<"stC", "__BELONGS_TO__", "tC">>}

\* the Statement sets Fact f1 may support: within A, across A and B
SupportChoices1 == {{"stA1"}, {"stA1", "stB"}}

\* the Statement sets Fact f2 may support: within B, two Statements of A,
\* across all three documents
SupportChoices2 == {{"stB"}, {"stA1", "stA2"}, {"stA2", "stB", "stC"}}

\* Fact -> Statement (SUPPORTS), Fact -> Entity (SUBJECT / OBJECT); Topic tA is
\* mentioned in both Chunks of A
GraphWith(s1, s2, subj2, obj1) ==
    [V |-> Vertices,
     E |-> SkeletonE
           \cup {<<"tA", "__MENTIONED_IN__", "cA2">>}
           \cup {<<"f1", "__SUPPORTS__", s>> : s \in s1}
           \cup {<<"f2", "__SUPPORTS__", s>> : s \in s2}
           \cup {<<"f1", "__SUBJECT__", "e1">>, <<"f2", "__SUBJECT__", subj2>>}
           \cup (IF obj1 THEN {<<"f1", "__OBJECT__", "e1">>} ELSE {})]

InitGraphs ==
    {GraphWith(s1, s2, subj2, obj1) :
        s1 \in SupportChoices1, s2 \in SupportChoices2,
        subj2 \in Entities, obj1 \in BOOLEAN}

\* ------------------------------------------------------------ the two stores
D1 == <<"2", "0", "2", "3", "-", "1", "2", "-", "3", "1">>
D2 == <<"2", "0", "2", "4", "-", "0", "1", "-", "0", "1">>
D3 == <<"2", "0", "2", "4", "-", "0", "1", "-", "0", "2">>
Dates == {D1, D2, D3}

\* the index names the orchestrator is configured with
Indexes == {"chunk", "statement"}

NoRun == [engine |-> "none"]

\* the stores while only the graph matters
StoresIdle ==
    /\ base_date = [d \in Docs |-> D2]
    /\ index = [ix \in Indexes |-> [exists |-> TRUE, recs |-> [d \in Docs |-> 1]]]
    /\ last = NoRun
    /\ prev = NoRun
    /\ nruns = 0

\* no delete_document call has started
CallsIdle ==
    /\ pc = [c \in Calls |-> "idle"]
    /\ paper_id = [c \in Calls |-> "none"]
    /\ connection_stats = [c \in Calls |-> [connected_facts |-> Unset,
                                            connected_entities |-> Unset]]
    /\ results = [c \in Calls |-> <<>>]
    /\ tier = [c \in Calls |-> 0]
    /\ count_value = [c \in Calls |-> 0]
    /\ report = [c \in Calls |-> NoReport]
    /\ log = [c \in Calls |-> <<>>]
    /\ dropped = [c \in Calls |-> {}]
    /\ found = [c \in Calls |-> FALSE]
    /\ failed_at = [c \in Calls |-> "none"]
    /\ overlapped = FALSE

\* no string has been validated
DatesIdle == date_str = <<>> /\ valid = "unset" /\ edits = 0

NoCall == [fn |-> "none"]
PureIdle == arg = NoCall /\ out = NoCall

Init ==
    /\ G0 \in InitGraphs
    /\ G = G0
    /\ failures = 0
    /\ CallsIdle
    /\ StoresIdle
    /\ DatesIdle
    /\ PureIdle

\* ------------------------------------------------- NeptuneClient.delete_document
Finished == {"done", "raised"}

\* fault injection: a query of call c may fail while the failure budget lasts
\* and no other call is in progress
MayFail(c) ==
    /\ failures < MaxFailures
    /\ \A d \in Calls \ {c} : pc[d] \in Finished \cup {"idle"}

\* entry: the empty id is refused before any query; call 2 starts no earlier
\* than call 1 (the two callers are interchangeable), and overlaps call 1 only
\* in behaviours without a failed query
Call(c, p) ==
    /\ pc[c] = "idle"
    /\ c = 2 => pc[1] # "idle" /\ (pc[1] \notin Finished => failures = 0)
    /\ paper_id' = [paper_id EXCEPT ![c] = p]
    /\ found' = [found EXCEPT ![c] = \E v \in G.V \cap Sources : PaperIdOf(v) = p]
    /\ IF p = ""
       THEN pc' = [pc EXCEPT ![c] = "raised"]
       ELSE pc' = [pc EXCEPT ![c] = "connected_facts"]
    /\ overlapped' = (overlapped \/ (c = 2 /\ pc[1] \notin Finished))
    /\ UNCHANGED <<G, G0, connection_stats, results, tier, count_value, report,
                   log, dropped, failed_at, failures>>

\* the value a connect query returns
connect_queries(Gr, name, p) ==
    IF name = "connected_facts" THEN connected_facts(Gr, p) ELSE connected_entities(Gr, p)

\* one pass of the connect_queries loop: the count, or "Error" when the query fails
ConnectQuery(c, name, next, fails) ==
    /\ pc[c] = name
    /\ fails => MayFail(c)
    /\ failures' = IF fails THEN failures + 1 ELSE failures
    /\ connection_stats' =
         [connection_stats EXCEPT ![c][name] =
            IF fails THEN [err |-> TRUE, n |-> 0]
            ELSE [err |-> FALSE, n |-> connect_queries(G, name, paper_id[c])]]
    /\ log' = [log EXCEPT ![c] = Append(@, <<"stat", name>>)]
    /\ pc' = [pc EXCEPT ![c] = next]
    /\ tier' = [tier EXCEPT ![c] = IF next = "count" THEN 1 ELSE @]
    /\ UNCHANGED <<G, G0, paper_id, results, count_value, report, dropped, found, failed_at,
                   overlapped>>

\* mutant of shared_nodes: the operands of the subtraction are swapped
shared_nodes_Swapped(stats, res) ==
    [facts |-> res[2] - stats.connected_facts.n,
     entities |-> res[1] - stats.connected_entities.n]

\* the dict delete_document returns; "Error" - int raises TypeError
shared_nodes(stats, res) ==
    [facts |-> stats.connected_facts.n - res[2],
     entities |-> stats.connected_entities.n - res[1]]

ReturnRaises(stats) == stats.connected_facts.err \/ stats.connected_entities.err

\* the end of one pass of the tier loop with res as the results so far: on to
\* the next tier, or after the last one build the report (or raise)
EndOfTier(c, res) ==
    /\ results' = [results EXCEPT ![c] = res]
    /\ IF tier[c] < Len(execution_order)
       THEN /\ tier' = [tier EXCEPT ![c] = @ + 1]
            /\ pc' = [pc EXCEPT ![c] = "count"]
            /\ report' = report
       ELSE /\ tier' = tier
            /\ IF ReturnRaises(connection_stats[c])
               THEN /\ pc' = [pc EXCEPT ![c] = "raised"]
                    /\ report' = report
               ELSE /\ pc' = [pc EXCEPT ![c] = "done"]
                    /\ report' = [report EXCEPT ![c] =
                          [status |-> "success", paper_id |-> paper_id[c],
                           deleted |-> res,
                           shared_nodes |-> shared_nodes(connection_stats[c], res)]]

\* count = self.client.submit(count_query): 0 ends the pass with deleted 0
CountQuery(c) ==
    /\ pc[c] = "count"
    /\ LET entity_type == execution_order[tier[c]]
           n == count_query(G, entity_type, paper_id[c])
       IN  /\ log' = [log EXCEPT ![c] = Append(@, <<"count", entity_type>>)]
           /\ count_value' = [count_value EXCEPT ![c] = n]
           /\ IF n > 0
              THEN /\ pc' = [pc EXCEPT ![c] = "drop"]
                   /\ UNCHANGED <<results, tier, report>>
              ELSE EndOfTier(c, Append(results[c], 0))
    /\ UNCHANGED <<G, G0, paper_id, connection_stats, dropped, found, failed_at, failures,
                   overlapped>>

\* self.client.submit(delete_query): the store changes, deleted = the count read
DropQuery(c) ==
    /\ pc[c] = "drop"
    /\ LET entity_type == execution_order[tier[c]]
       IN  /\ log' = [log EXCEPT ![c] = Append(@, <<"drop", entity_type>>)]
           /\ G' = delete_query(G, entity_type, paper_id[c])
           /\ dropped' = [dropped EXCEPT ![c] =
                            @ \cup (Support(delete_queries(G, entity_type, paper_id[c]))
                                    \cap G.V)]
           /\ EndOfTier(c, Append(results[c], count_value[c]))
    /\ UNCHANGED <<G0, paper_id, connection_stats, count_value, found, failed_at, failures,
                   overlapped>>

\* mutant of QueryFails: the exception is swallowed and the loop goes on
QueryFails_Swallowed(c) ==
    /\ pc[c] \in {"count", "drop"}
    /\ MayFail(c)
    /\ failures' = failures + 1
    /\ log' = [log EXCEPT ![c] = Append(@, <<pc[c], execution_order[tier[c]]>>)]
    /\ failed_at' = [failed_at EXCEPT ![c] = execution_order[tier[c]]]
    /\ EndOfTier(c, Append(results[c], 0))
    /\ UNCHANGED <<G, G0, paper_id, connection_stats, count_value,
                   dropped, found, overlapped>>

\* a count or drop query fails: except ... raise
QueryFails(c) ==
    /\ pc[c] \in {"count", "drop"}
    /\ MayFail(c)
    /\ failures' = failures + 1
    /\ log' = [log EXCEPT ![c] = Append(@, <<pc[c], execution_order[tier[c]]>>)]
    /\ failed_at' = [failed_at EXCEPT ![c] = execution_order[tier[c]]]
    /\ pc' = [pc EXCEPT ![c] = "raised"]
    /\ UNCHANGED <<G, G0, paper_id, connection_stats, results, tier, count_value,
                   report, dropped, found, overlapped>>

\* the search indices and the validator are not touched
OnlyGraph == UNCHANGED <<rvars, dvars, pvars>>

Next ==
    \/ \E c \in Calls, p \in PaperIds : Call(c, p) /\ OnlyGraph
    \/ \E c \in Calls, fails \in BOOLEAN :
          ConnectQuery(c, "connected_facts", "connected_entities", fails) /\ OnlyGraph
    \/ \E c \in Calls, fails \in BOOLEAN :
          ConnectQuery(c, "connected_entities", "count", fails) /\ OnlyGraph
    \/ \E c \in Calls : CountQuery(c) /\ OnlyGraph
    \/ \E c \in Calls : DropQuery(c) /\ OnlyGraph
    \/ \E c \in Calls : QueryFails(c) /\ OnlyGraph

Spec == Init /\ [][Next]_vars


\* ---------------------------------------- the engines, one call as one step
\* A call of an engine method runs to completion without interleaving; which of
\* its remote calls fails is an argument.  NoFail: none does.
NoFail == <<"none", "none">>

\* the element of a singleton set: { e(x) : x \in {v} } computes v once
Only(S) == CHOOSE x \in S : TRUE

\* the for loop over execution_order from tier i on, res the results so far
RECURSIVE TierLoop(_, _, _, _, _)
TierLoop(Gr, p, i, res, fail) ==
    IF i > Len(execution_order) THEN [G |-> Gr, raised |-> FALSE, results |-> res]
    ELSE LET entity_type == execution_order[i]
         IN  Only({ IF fail = <<"count", entity_type>>
                    THEN [G |-> g, raised |-> TRUE, results |-> res]
                    ELSE IF n > 0
                    THEN IF fail = <<"drop", entity_type>>
                         THEN [G |-> g, raised |-> TRUE, results |-> res]
                         ELSE TierLoop(delete_query(g, entity_type, p), p, i + 1,
                                       Append(res, n), fail)
                    ELSE TierLoop(g, p, i + 1, Append(res, 0), fail) :
                    g \in {Gr}, n \in {count_query(Gr, entity_type, p)} })

\* NeptuneClient.delete_document run alone: the store after it, whether it
\* raised, and the report
NeptuneDeleteDocument(Gr, p, fail) ==
    IF p = "" THEN [G |-> Gr, raised |-> TRUE, report |-> NoReport]
    ELSE Only({ IF run.raised \/ ReturnRaises(stats)
                THEN [G |-> run.G, raised |-> TRUE, report |-> NoReport]
                ELSE [G |-> run.G, raised |-> FALSE,
                      report |-> [status |-> "success", paper_id |-> p,
                                  deleted |-> run.results,
                                  shared_nodes |-> shared_nodes(stats, run.results)]] :
                stats \in {[name \in {"connected_facts", "connected_entities"} |->
                             IF fail = <<"stat", name>> THEN [err |-> TRUE, n |-> 0]
                             ELSE [err |-> FALSE, n |-> connect_queries(Gr, name, p)]]},
                run \in {TierLoop(Gr, p, 1, <<>>, fail)} })

\* the entry batch_delete_documents appends for an id whose deletion raised
ErrorEntry(p) == [status |-> "error", paper_id |-> p, error |-> "raised"]

\* mutant of NeptuneBatchLoop: the batch stops at the first id that raises
RECURSIVE NeptuneBatchLoop_Stops(_, _, _, _, _)
NeptuneBatchLoop_Stops(Gr, paper_ids, fails, i, acc) ==
    IF i > Len(paper_ids) THEN [G |-> Gr, results |-> acc]
    ELSE Only({ IF r.raised
                THEN [G |-> r.G, results |-> Append(acc, ErrorEntry(paper_ids[i]))]
                ELSE NeptuneBatchLoop_Stops(r.G, paper_ids, fails, i + 1,
                                            Append(acc, r.report)) :
                r \in {NeptuneDeleteDocument(Gr, paper_ids[i], fails[i])} })

\* the for loop of NeptuneClient.batch_delete_documents from position i on
RECURSIVE NeptuneBatchLoop(_, _, _, _, _)
NeptuneBatchLoop(Gr, paper_ids, fails, i, acc) ==
    IF i > Len(paper_ids) THEN [G |-> Gr, results |-> acc]
    ELSE Only({ NeptuneBatchLoop(r.G, paper_ids, fails, i + 1,
                                 Append(acc, IF r.raised THEN ErrorEntry(paper_ids[i])
                                             ELSE r.report)) :
                r \in {NeptuneDeleteDocument(Gr, paper_ids[i], fails[i])} })

\* NeptuneClient.batch_delete_documents
NeptuneBatch(Gr, paper_ids, fails) ==
    IF paper_ids = <<>> THEN [G |-> Gr, results |-> <<>>]
    ELSE NeptuneBatchLoop(Gr, paper_ids, fails, 1, <<>>)

\* mutant of CountSuccess: every entry counts
CountSuccess_All(res) == Len(res)

\* sum(1 for result in results if result.get("status") == "success")
RECURSIVE CountSuccess(_)
CountSuccess(res) ==
    IF res = <<>> THEN 0
    ELSE (IF "status" \in DOMAIN Head(res) /\ Head(res).status = "success" THEN 1 ELSE 0)
         + CountSuccess(Tail(res))

\* summarize_deletion_results(results, **context); summary.update(context)
summarize_deletion_results(res, context) ==
    context @@ [status |-> "completed",
                total_documents |-> Len(res),
                deleted_count |-> CountSuccess(res),
                error_count |-> Len(res) - CountSuccess(res),
                details |-> res]

\* the documents whose Source vertex a graph holds
DocsIn(Gr) == {PaperIdOf(v) : v \in Gr.V \cap Sources}
SeqRange(q) == {q[i] : i \in DOMAIN q}

\* the documents in a fixed order, as the list a query result comes back as
\* (the order the store returns ids in changes no run made here)
DocOrder == <<"A", "B", "C">>
ListOf(S) == SelectSeq(DocOrder, LAMBDA d : d \in S)

\* P.between(start, end): start <= x < end
Between(x, start, end) == StrLeq(start, x) /\ StrLess(x, end)

\* NeptuneClient._find_paper_ids_by_date_range: the query
\*   g.V().hasLabel('__Source__').has('base_date', between(start, end))
\*     .values('paper_id').dedup().fold()
NeptuneFindByDateRange(Gr, dates, start_date, end_date) ==
    ListOf({d \in Docs :
              \E v \in Gr.V \cap Sources :
                  PaperIdOf(v) = d /\ Between(dates[d], start_date, end_date)})

NoFails(paper_ids) == [i \in 1..Len(paper_ids) |-> NoFail]

\* mutant of NeptuneDeleteByDateRange: only start_date is validated
NeptuneDeleteByDateRange_StartOnly(Gr, dates, start_date, end_date, find_fail, fail1) ==
    IF ~is_valid_date_format(start_date)
    THEN [G |-> Gr, raised |-> "ValueError", result |-> NoReport, ids |-> <<>>]
    ELSE IF find_fail # "none"
    THEN [G |-> Gr, result |-> NoReport, ids |-> <<>>,
          raised |-> IF find_fail = "unreachable" THEN "ConnectionError" ELSE "QueryError"]
    ELSE LET paper_ids == NeptuneFindByDateRange(Gr, dates, start_date, end_date)
             fails == [i \in 1..Len(paper_ids) |-> IF i = 1 THEN fail1 ELSE NoFail]
             b == NeptuneBatch(Gr, paper_ids, fails)
         IN  IF paper_ids = <<>>
             THEN [G |-> Gr, raised |-> "no", ids |-> paper_ids,
                   result |-> [status |-> "success",
                               date_range |-> <<start_date, end_date>>,
                               deleted_count |-> 0]]
             ELSE [G |-> b.G, raised |-> "no", ids |-> paper_ids,
                   result |-> summarize_deletion_results(
                                  b.results, [date_range |-> <<start_date, end_date>>])]

\* NeptuneClient.delete_documents_by_date_range; find_fail = "query": the id
\* query fails; "unreachable": the store cannot be reached; fail1: the query that fails in the first resolved id's deletion
NeptuneDeleteByDateRange(Gr, dates, start_date, end_date, find_fail, fail1) ==
    IF ~(is_valid_date_format(start_date) /\ is_valid_date_format(end_date))
    THEN [G |-> Gr, raised |-> "ValueError", result |-> NoReport, ids |-> <<>>]
    ELSE IF find_fail # "none"
    THEN [G |-> Gr, result |-> NoReport, ids |-> <<>>,
          raised |-> IF find_fail = "unreachable" THEN "ConnectionError" ELSE "QueryError"]
    ELSE LET paper_ids == NeptuneFindByDateRange(Gr, dates, start_date, end_date)
             fails == [i \in 1..Len(paper_ids) |-> IF i = 1 THEN fail1 ELSE NoFail]
             b == NeptuneBatch(Gr, paper_ids, fails)
         IN  IF paper_ids = <<>>
             THEN [G |-> Gr, raised |-> "no", ids |-> paper_ids,
                   result |-> [status |-> "success",
                               date_range |-> <<start_date, end_date>>,
                               deleted_count |-> 0]]
             ELSE [G |-> b.G, raised |-> "no", ids |-> paper_ids,
                   result |-> summarize_deletion_results(
                                  b.results, [date_range |-> <<start_date, end_date>>])]

\* ---------------------------------------------------------- OpenSearchClient
\* the hits a search returns when the request names no size
DefaultSize == 10

Min(a, b) == IF a < b THEN a ELSE b

\* the records of paper id p an index holds
RecsOf(ix, p) == IF p \in Docs THEN ix.recs[p] ELSE 0

\* OpenSearchClient.delete_document run alone.  fail = <<"search", 0>>: the
\* search fails; <<"delete", k>>: k of the record deletions fail.
\* The search names no size, so it returns at most DefaultSize hits.
OSDeleteDocument(ix, p, fail) ==
    IF p = "" THEN [index |-> ix, raised |-> TRUE, result |-> NoReport]
    ELSE IF fail[1] = "search" \/ ~ix.exists
    THEN [index |-> ix, raised |-> FALSE, result |-> ErrorEntry(p)]
    ELSE LET doc_ids == Min(RecsOf(ix, p), DefaultSize)
             deleted_count == doc_ids - (IF fail[1] = "delete" THEN Min(fail[2], doc_ids) ELSE 0)
         IN  IF doc_ids = 0
             THEN [index |-> ix, raised |-> FALSE,
                   result |-> [status |-> "success", paper_id |-> p, deleted |-> 0]]
             ELSE [index |-> [ix EXCEPT !.recs[p] = @ - deleted_count],
                   raised |-> FALSE,
                   result |-> [status |-> "success", paper_id |-> p,
                               deleted |-> deleted_count, total |-> doc_ids]]

\* mutant of OSBatchLoop: the batch stops at the first id that raises
RECURSIVE OSBatchLoop_Stops(_, _, _, _, _)
OSBatchLoop_Stops(ix, paper_ids, fails, i, acc) ==
    IF i > Len(paper_ids) THEN [index |-> ix, results |-> acc]
    ELSE LET r == OSDeleteDocument(ix, paper_ids[i], fails[i])
         IN  IF r.raised
             THEN [index |-> r.index, results |-> Append(acc, ErrorEntry(paper_ids[i]))]
             ELSE OSBatchLoop_Stops(r.index, paper_ids, fails, i + 1, Append(acc, r.result))

\* the for loop of OpenSearchClient.batch_delete_documents from position i on
RECURSIVE OSBatchLoop(_, _, _, _, _)
OSBatchLoop(ix, paper_ids, fails, i, acc) ==
    IF i > Len(paper_ids) THEN [index |-> ix, results |-> acc]
    ELSE LET r == OSDeleteDocument(ix, paper_ids[i], fails[i])
         IN  OSBatchLoop(r.index, paper_ids, fails, i + 1,
                         Append(acc, IF r.raised THEN ErrorEntry(paper_ids[i])
                                     ELSE r.result))

\* OpenSearchClient.batch_delete_documents
OSBatch(ix, paper_ids, fails) ==
    IF paper_ids = <<>> THEN [index |-> ix, results |-> <<>>]
    ELSE OSBatchLoop(ix, paper_ids, fails, 1, <<>>)

\* OpenSearchClient._find_paper_ids_by_date_range with _get_paper_ids_from_query:
\* a missing index, or a failed existence probe, gives []; else the paper ids of the records with
\* start <= base_date <= end (range gte / lte), deduplicated
OSFindByDateRange(ix, dates, start_date, end_date, find_fail) ==
    IF ~ix.exists \/ find_fail = "probe" THEN <<>>
    ELSE ListOf({d \in Docs :
                   /\ ix.recs[d] > 0
                   /\ StrLeq(start_date, dates[d]) /\ StrLeq(dates[d], end_date)})

\* OpenSearchClient.delete_documents_by_date_range
OSDeleteByDateRange(ix, dates, start_date, end_date, find_fail, fail1) ==
    IF ~(is_valid_date_format(start_date) /\ is_valid_date_format(end_date))
    THEN [index |-> ix, raised |-> "ValueError", result |-> NoReport, ids |-> <<>>]
    ELSE IF find_fail = "search" /\ ix.exists
    THEN [index |-> ix, raised |-> "QueryError", result |-> NoReport, ids |-> <<>>]
    ELSE LET paper_ids == OSFindByDateRange(ix, dates, start_date, end_date, find_fail)
             fails == [i \in 1..Len(paper_ids) |-> IF i = 1 THEN fail1 ELSE <<"none", 0>>]
             b == OSBatch(ix, paper_ids, fails)
         IN  IF paper_ids = <<>>
             THEN [index |-> ix, raised |-> "no", ids |-> paper_ids,
                   result |-> [status |-> "success", deleted |-> 0, total |-> 0,
                               failures |-> <<>>,
                               date_range |-> <<start_date, end_date>>]]
             ELSE [index |-> b.index, raised |-> "no", ids |-> paper_ids,
                   result |-> summarize_deletion_results(
                                  b.results, [date_range |-> <<start_date, end_date>>])]

\* ------------------------------------------------- engine calls on the stores
\* the stores ingestion may have left
RangeGraphs ==
    {GraphWith({"stA1"}, {"stB"}, "e2", FALSE),
     GraphWith({"stA1", "stB"}, {"stA2", "stB", "stC"}, "e1", TRUE)}

DateAssignments ==
    {[d \in Docs |-> IF d = "C" THEN D3 ELSE D2],
     [d \in Docs |-> IF d = "A" THEN D1 ELSE IF d = "B" THEN D2 ELSE D3]}

\* either index "chunk" holds DefaultSize + 1 records of A and index
\* "statement" does not exist, or both hold one record per document
IndexChoices ==
    {[ix \in Indexes |->
        IF ix = "chunk"
        THEN [exists |-> TRUE,
              recs |-> [d \in Docs |-> IF d = "A" /\ big THEN DefaultSize + 1 ELSE 1]]
        ELSE [exists |-> ~big, recs |-> [d \in Docs |-> IF big THEN 0 ELSE 1]]] :
     big \in BOOLEAN}

InitStores ==
    /\ G0 \in RangeGraphs
    /\ G = G0
    /\ failures = 0
    /\ CallsIdle
    /\ base_date \in DateAssignments
    /\ index \in IndexChoices
    /\ last = NoRun
    /\ prev = NoRun
    /\ nruns = 0
    /\ DatesIdle
    /\ PureIdle

\* what the previous call was, for a claim about two calls in succession
Brief(run) ==
    IF run.engine = "none" THEN run
    ELSE [engine |-> run.engine, op |-> run.op, ix |-> run.ix, args |-> run.args,
          failed |-> run.failed]

OnlyStores == UNCHANGED <<G0, cvars, base_date, dvars, pvars>>

\* the lists batch_delete_documents is called with
BatchInputs ==
    {<<>>, <<"A">>, <<"Z", "A">>, <<"", "A", "B">>, <<"A", "", "A">>, <<"B", "Z", "">>}

NeptuneFailPoints ==
    {NoFail, <<"stat", "connected_entities">>, <<"count", "entities">>, <<"drop", "chunks">>}
OSFailPoints == {<<"none", 0>>, <<"search", 0>>, <<"delete", 1>>}

\* at most MaxFailures ids of the list meet a failure
FailPlans(paper_ids, points, none) ==
    {f \in [1..Len(paper_ids) -> points] :
        Cardinality({i \in 1..Len(paper_ids) : f[i] # none}) <= MaxFailures}

FailedIds(f, none) == Cardinality({i \in DOMAIN f : f[i] # none})

RunNeptuneBatch(paper_ids, fails) ==
    /\ nruns = 0
    /\ \E b \in {NeptuneBatch(G, paper_ids, fails)} :
           /\ G' = b.G
           /\ last' = [engine |-> "neptune", op |-> "batch", ix |-> "none",
                       args |-> paper_ids, fails |-> fails,
                       failed |-> FailedIds(fails, NoFail) > 0,
                       results |-> b.results, G_before |-> G, index_before |-> index]
    /\ prev' = Brief(last)
    /\ nruns' = nruns + 1
    /\ failures' = failures + FailedIds(fails, NoFail)
    /\ UNCHANGED index

RunOSBatch(ix, paper_ids, fails) ==
    /\ nruns = 0
    /\ \E b \in {OSBatch(index[ix], paper_ids, fails)} :
           /\ index' = [index EXCEPT ![ix] = b.index]
           /\ last' = [engine |-> "opensearch", op |-> "batch", ix |-> ix,
                       args |-> paper_ids, fails |-> fails,
                       failed |-> FailedIds(fails, <<"none", 0>>) > 0,
                       results |-> b.results, G_before |-> G, index_before |-> index]
    /\ prev' = Brief(last)
    /\ nruns' = nruns + 1
    /\ failures' = failures + FailedIds(fails, <<"none", 0>>)
    /\ UNCHANGED G

NextBatch ==
    \/ \E paper_ids \in BatchInputs :
          \E fails \in FailPlans(paper_ids, NeptuneFailPoints, NoFail) :
              RunNeptuneBatch(paper_ids, fails) /\ OnlyStores
    \/ \E ix \in Indexes, paper_ids \in BatchInputs :
          \E fails \in FailPlans(paper_ids, OSFailPoints, <<"none", 0>>) :
              RunOSBatch(ix, paper_ids, fails) /\ OnlyStores

SpecBatch == InitStores /\ [][NextBatch]_vars

\* the date arguments of a range deletion: start <= end
DateRanges == {r \in Dates \X Dates : StrLeq(r[1], r[2])}

RunNeptuneRange(start_date, end_date, find_fail) ==
    /\ nruns < MaxRuns
    /\ find_fail # "none" => failures < MaxFailures
    /\ \E r \in {NeptuneDeleteByDateRange(G, base_date, start_date, end_date,
                                           find_fail, NoFail)} :
           /\ G' = r.G
           /\ last' = [engine |-> "neptune", op |-> "range", ix |-> "none",
                       args |-> <<start_date, end_date>>,
                       failed |-> find_fail # "none",
                       raised |-> r.raised, result |-> r.result, ids |-> r.ids,
                       G_before |-> G, index_before |-> index]
    /\ prev' = Brief(last)
    /\ nruns' = nruns + 1
    /\ failures' = IF find_fail # "none" THEN failures + 1 ELSE failures
    /\ UNCHANGED index

RunOSRange(ix, start_date, end_date, find_fail) ==
    /\ nruns < MaxRuns
    /\ find_fail # "none" => failures < MaxFailures
    /\ \E r \in {OSDeleteByDateRange(index[ix], base_date, start_date, end_date,
                                      find_fail, <<"none", 0>>)} :
           /\ index' = [index EXCEPT ![ix] = r.index]
           /\ last' = [engine |-> "opensearch", op |-> "range", ix |-> ix,
                       args |-> <<start_date, end_date>>,
                       failed |-> find_fail # "none",
                       raised |-> r.raised, result |-> r.result, ids |-> r.ids,
                       G_before |-> G, index_before |-> index]
    /\ prev' = Brief(last)
    /\ nruns' = nruns + 1
    /\ failures' = IF find_fail # "none" THEN failures + 1 ELSE failures
    /\ UNCHANGED G

NextRange ==
    \/ \E r \in DateRanges, find_fail \in {"none", "query"} :
          RunNeptuneRange(r[1], r[2], find_fail) /\ OnlyStores
    \/ \E ix \in Indexes, r \in DateRanges, find_fail \in {"none", "probe", "search"} :
          RunOSRange(ix, r[1], r[2], find_fail) /\ OnlyStores

\* range deletions start from one graph: they take whole documents
InitRange == InitStores /\ G0 = GraphWith({"stA1"}, {"stB"}, "e2", FALSE)

SpecRange == InitRange /\ [][NextRange]_vars

\* ------------------------------------------------- deletion by a single date
\* NeptuneClient._find_paper_ids_by_date: the query
\*   g.V().hasLabel('__Source__').has('base_date', base).values('paper_id').dedup().fold()
NeptuneFindByDate(Gr, dates, base) ==
    ListOf({d \in Docs : \E v \in Gr.V \cap Sources : PaperIdOf(v) = d /\ dates[d] = base})

\* NeptuneClient.delete_documents_by_date
NeptuneDeleteByDate(Gr, dates, base, find_fail) ==
    IF ~is_valid_date_format(base)
    THEN [G |-> Gr, raised |-> "ValueError", result |-> NoReport, ids |-> <<>>]
    ELSE IF find_fail # "none"
    THEN [G |-> Gr, result |-> NoReport, ids |-> <<>>,
          raised |-> IF find_fail = "unreachable" THEN "ConnectionError" ELSE "QueryError"]
    ELSE Only({ IF paper_ids = <<>>
                THEN [G |-> Gr, raised |-> "no", ids |-> paper_ids,
                      result |-> [status |-> "success", base_date |-> base, deleted |-> 0]]
                ELSE Only({ [G |-> b.G, raised |-> "no", ids |-> paper_ids,
                             result |-> summarize_deletion_results(
                                            b.results, [base_date |-> base])] :
                            b \in {NeptuneBatch(Gr, paper_ids, NoFails(paper_ids))} }) :
                paper_ids \in {NeptuneFindByDate(Gr, dates, base)} })

\* the remote calls the graph engine makes to resolve ids
NeptuneResolveCalls(dates_valid, find_fail) ==
    IF dates_valid THEN <<"submit">> ELSE <<>>

\* mutant of OSResolveCalls: the search is sent without probing the index
OSResolveCalls_NoProbe(ix, dates_valid, find_fail) ==
    IF dates_valid THEN <<"search">> ELSE <<>>

\* the remote calls _get_paper_ids_from_query makes: the existence probe, then
\* the search unless the probe said no
OSResolveCalls(ix, dates_valid, find_fail) ==
    IF ~dates_valid THEN <<>>
    ELSE IF ~ix.exists \/ find_fail = "probe" THEN <<"exists">>
    ELSE <<"exists", "search">>

\* OpenSearchClient._find_paper_ids_by_date: match on base_date
OSFindByDate(ix, dates, base, find_fail) ==
    IF ~ix.exists \/ find_fail = "probe" THEN <<>>
    ELSE ListOf({d \in Docs : ix.recs[d] > 0 /\ dates[d] = base})

NoOSFails(paper_ids) == [i \in 1..Len(paper_ids) |-> <<"none", 0>>]

\* OpenSearchClient.delete_documents_by_date
OSDeleteByDate(ix, dates, base, find_fail) ==
    IF ~is_valid_date_format(base)
    THEN [index |-> ix, raised |-> "ValueError", result |-> NoReport, ids |-> <<>>]
    ELSE IF find_fail = "search" /\ ix.exists
    THEN [index |-> ix, raised |-> "QueryError", result |-> NoReport, ids |-> <<>>]
    ELSE Only({ IF paper_ids = <<>>
                THEN [index |-> ix, raised |-> "no", ids |-> paper_ids,
                      result |-> [status |-> "success", deleted |-> 0, total |-> 0,
                                  failures |-> <<>>, base_date |-> base]]
                ELSE Only({ [index |-> b.index, raised |-> "no", ids |-> paper_ids,
                             result |-> summarize_deletion_results(
                                            b.results, [base_date |-> base])] :
                            b \in {OSBatch(ix, paper_ids, NoOSFails(paper_ids))} }) :
                paper_ids \in {OSFindByDate(ix, dates, base, find_fail)} })

\* ------------------------------------------ NeptuneClient.delete_all_documents
EmptyGraph == [V |-> {}, E |-> {}]

ErrorSummary ==
    [status |-> "error", error |-> "raised",
     total_documents |-> 0, deleted_count |-> 0, error_count |-> 0]

DeleteAllQueries == <<"vertex_count", "edge_count", "drop", "remaining_count">>

\* mutant of NeptuneDeleteAll: a failed query is raised to the caller
NeptuneDeleteAll_Raises(Gr, fail) ==
    [G |-> Gr, raised |-> fail # "none", result |-> ErrorSummary]

\* delete_all_documents; fail names the query that fails, or is "none"
NeptuneDeleteAll(Gr, fail) ==
    LET vertex_count == Cardinality(Gr.V)
        edge_count == Cardinality(Gr.E)
        total_count == vertex_count + edge_count
        remaining_count == Cardinality(EmptyGraph.V)
    IN  IF fail \in {"vertex_count", "edge_count", "drop"}
        THEN [G |-> Gr, raised |-> FALSE, result |-> ErrorSummary]
        ELSE IF fail = "remaining_count"
        THEN [G |-> EmptyGraph, raised |-> FALSE, result |-> ErrorSummary]
        ELSE [G |-> EmptyGraph, raised |-> FALSE,
              result |-> [status |-> "completed",
                          total_documents |-> total_count,
                          deleted_count |-> total_count - remaining_count,
                          vertices_deleted |-> vertex_count,
                          edges_deleted |-> edge_count]]

\* ------------------------------------------------------------------ Cleaner
\* the index names the Cleaner is configured with
opensearch_indexes == <<"chunk", "statement">>

\* end_date=None
None == <<"None">>

\* the entry the Cleaner stores for an index whose range deletion raised
IndexErrorEntry == [status |-> "error", error |-> "raised"]

\* mutant of CleanerIndexLoop: the loop ends at the first index that raises
RECURSIVE CleanerIndexLoop_Stops(_, _, _, _, _, _, _)
CleanerIndexLoop_Stops(idx, dates, start_date, end_date, ofails, i, acc) ==
    IF i > Len(opensearch_indexes) THEN [index |-> idx, results |-> acc]
    ELSE Only({ IF r.raised # "no"
                THEN [index |-> idx, results |-> acc]
                ELSE CleanerIndexLoop_Stops(
                         [idx EXCEPT ![opensearch_indexes[i]] = r.index],
                         dates, start_date, end_date, ofails, i + 1,
                         acc @@ (opensearch_indexes[i] :> r.result)) :
                r \in {OSDeleteByDateRange(idx[opensearch_indexes[i]], dates, start_date,
                                           end_date, ofails[opensearch_indexes[i]],
                                           <<"none", 0>>)} })

\* for index in self.opensearch_indexes: try ... except, from position i on
RECURSIVE CleanerIndexLoop(_, _, _, _, _, _, _)
CleanerIndexLoop(idx, dates, start_date, end_date, ofails, i, acc) ==
    IF i > Len(opensearch_indexes) THEN [index |-> idx, results |-> acc]
    ELSE Only({ CleanerIndexLoop(
                    [idx EXCEPT ![opensearch_indexes[i]] = r.index],
                    dates, start_date, end_date, ofails, i + 1,
                    acc @@ (opensearch_indexes[i] :>
                              IF r.raised # "no" THEN IndexErrorEntry ELSE r.result)) :
                r \in {OSDeleteByDateRange(idx[opensearch_indexes[i]], dates, start_date,
                                           end_date, ofails[opensearch_indexes[i]],
                                           <<"none", 0>>)} })

\* Cleaner.delete_documents_by_date_range(start_date, end_date): the graph
\* call is not guarded, each index call is
CleanerDeleteByDateRange(Gr, idx, dates, start_date, end_date_arg, nfail, ofails) ==
    LET end_date == IF end_date_arg = None THEN start_date ELSE end_date_arg
    IN  Only({ IF n.raised # "no"
               THEN [G |-> n.G, index |-> idx, raised |-> n.raised, result |-> NoReport]
               ELSE Only({ [G |-> n.G, index |-> l.index, raised |-> "no",
                            result |-> [neptune |-> n.result,
                                        opensearch |-> l.results,
                                        date_range |-> <<start_date, end_date>>]] :
                           l \in {CleanerIndexLoop(idx, dates, start_date, end_date,
                                                   ofails, 1, <<>>)} }) :
               n \in {NeptuneDeleteByDateRange(Gr, dates, start_date, end_date,
                                               nfail, NoFail)} })

\* the date arguments a caller may pass: dates, and strings that are none
NotADate == <<"J", "a", "n", " ", "1", " ", "2", "0", "2", "4">>
DateArgs == Dates \cup {NotADate, <<>>}

\* the failures one Cleaner run meets: at most MaxFailures stores fail
CleanerFailPlans ==
    {f \in [neptune : {"none", "query", "unreachable"},
            opensearch : [Indexes -> {"none", "probe", "search"}]] :
        Cardinality({ix \in Indexes : f.opensearch[ix] # "none"})
          + (IF f.neptune # "none" THEN 1 ELSE 0) <= MaxFailures}

RunCleaner(start_date, end_date_arg, f) ==
    /\ nruns = 0
    /\ \E r \in {CleanerDeleteByDateRange(G, index, base_date, start_date, end_date_arg,
                                          f.neptune, f.opensearch)} :
           /\ G' = r.G
           /\ index' = r.index
           /\ last' = [engine |-> "cleaner", op |-> "range", ix |-> "all",
                       args |-> <<start_date, end_date_arg>>,
                       fails |-> f,
                       failed |-> f.neptune # "none"
                                  \/ \E ix \in Indexes : f.opensearch[ix] # "none",
                       raised |-> r.raised, result |-> r.result,
                       G_before |-> G, index_before |-> index]
    /\ prev' = Brief(last)
    /\ nruns' = nruns + 1
    /\ failures' = failures + Cardinality({ix \in Indexes : f.opensearch[ix] # "none"})
                            + (IF f.neptune # "none" THEN 1 ELSE 0)

NextCleaner ==
    \/ \E start_date \in DateArgs, end_date \in DateArgs, f \in CleanerFailPlans :
          RunCleaner(start_date, end_date, f) /\ OnlyStores
    \/ \E start_date \in DateArgs, f \in CleanerFailPlans :
          RunCleaner(start_date, None, f) /\ OnlyStores

SpecCleaner == InitStores /\ [][NextCleaner]_vars

\* ------------------------------------------------ one engine call on its own
\* NeptuneClient._find_paper_ids_by_date (one date) / _by_date_range (two)
NeptuneFind(Gr, dates, args, find_fail) ==
    IF \E i \in DOMAIN args : ~is_valid_date_format(args[i])
    THEN [raised |-> "ValueError", ids |-> <<>>]
    ELSE IF find_fail # "none"
    THEN [raised |-> IF find_fail = "unreachable" THEN "ConnectionError" ELSE "QueryError",
          ids |-> <<>>]
    ELSE [raised |-> "no",
          ids |-> IF Len(args) = 1 THEN NeptuneFindByDate(Gr, dates, args[1])
                  ELSE NeptuneFindByDateRange(Gr, dates, args[1], args[2])]

\* OpenSearchClient._find_paper_ids_by_date (one date) / _by_date_range (two)
OSFind(ix, dates, args, find_fail) ==
    IF \E i \in DOMAIN args : ~is_valid_date_format(args[i])
    THEN [raised |-> "ValueError", ids |-> <<>>]
    ELSE IF find_fail = "search" /\ ix.exists
    THEN [raised |-> "QueryError", ids |-> <<>>]
    ELSE [raised |-> "no",
          ids |-> IF Len(args) = 1 THEN OSFindByDate(ix, dates, args[1], find_fail)
                  ELSE OSFindByDateRange(ix, dates, args[1], args[2], find_fail)]

AllValid(args) == \A i \in DOMAIN args : is_valid_date_format(args[i])

\* the record of a call that ran on its own
Ran(engine, op, ix, args, fail, raised, result, ids, calls) ==
    [engine |-> engine, op |-> op, ix |-> ix, args |-> args, fail |-> fail,
     failed |-> fail # "none", raised |-> raised, result |-> result, ids |-> ids,
     calls |-> calls, G_before |-> G, index_before |-> index]

Once(fail) ==
    /\ nruns = 0
    /\ nruns' = 1
    /\ prev' = Brief(last)
    /\ failures' = IF fail # "none" THEN failures + 1 ELSE failures

RunNeptuneByDate(base, find_fail) ==
    /\ Once(find_fail)
    /\ \E r \in {NeptuneDeleteByDate(G, base_date, base, find_fail)} :
           /\ G' = r.G
           /\ last' = Ran("neptune", "by_date", "none", <<base>>, find_fail, r.raised,
                          r.result, r.ids,
                          NeptuneResolveCalls(AllValid(<<base>>), find_fail))
    /\ UNCHANGED index

RunNeptuneByRange(start_date, end_date, find_fail) ==
    /\ Once(find_fail)
    /\ \E r \in {NeptuneDeleteByDateRange(G, base_date, start_date, end_date,
                                          find_fail, NoFail)} :
           /\ G' = r.G
           /\ last' = Ran("neptune", "range", "none", <<start_date, end_date>>, find_fail,
                          r.raised, r.result, r.ids,
                          NeptuneResolveCalls(AllValid(<<start_date, end_date>>), find_fail))
    /\ UNCHANGED index

RunNeptuneFind(args, find_fail) ==
    /\ Once(find_fail)
    /\ \E r \in {NeptuneFind(G, base_date, args, find_fail)} :
           last' = Ran("neptune", "find", "none", args, find_fail, r.raised,
                       NoReport, r.ids, NeptuneResolveCalls(AllValid(args), find_fail))
    /\ UNCHANGED <<G, index>>

RunOSByDate(ix, base, find_fail) ==
    /\ Once(find_fail)
    /\ \E r \in {OSDeleteByDate(index[ix], base_date, base, find_fail)} :
           /\ index' = [index EXCEPT ![ix] = r.index]
           /\ last' = Ran("opensearch", "by_date", ix, <<base>>, find_fail, r.raised,
                          r.result, r.ids,
                          OSResolveCalls(index[ix], AllValid(<<base>>), find_fail))
    /\ UNCHANGED G

RunOSByRange(ix, start_date, end_date, find_fail) ==
    /\ Once(find_fail)
    /\ \E r \in {OSDeleteByDateRange(index[ix], base_date, start_date, end_date,
                                     find_fail, <<"none", 0>>)} :
           /\ index' = [index EXCEPT ![ix] = r.index]
           /\ last' = Ran("opensearch", "range", ix, <<start_date, end_date>>, find_fail,
                          r.raised, r.result, r.ids,
                          OSResolveCalls(index[ix], AllValid(<<start_date, end_date>>),
                                         find_fail))
    /\ UNCHANGED G

RunOSFind(ix, args, find_fail) ==
    /\ Once(find_fail)
    /\ \E r \in {OSFind(index[ix], base_date, args, find_fail)} :
           last' = Ran("opensearch", "find", ix, args, find_fail, r.raised,
                       NoReport, r.ids, OSResolveCalls(index[ix], AllValid(args), find_fail))
    /\ UNCHANGED <<G, index>>

RunOSDeleteDocument(ix, p, fail) ==
    /\ Once(fail[1])
    /\ \E r \in {OSDeleteDocument(index[ix], p, fail)} :
           /\ index' = [index EXCEPT ![ix] = r.index]
           /\ last' = [Ran("opensearch", "delete_document", ix, <<p>>, fail[1],
                           IF r.raised THEN "ValueError" ELSE "no", r.result, <<p>>, <<>>)
                       EXCEPT !.fail = fail]
    /\ UNCHANGED G

RunDeleteAll(fail) ==
    /\ Once(fail)
    /\ \E r \in {NeptuneDeleteAll(G, fail)} :
           /\ G' = r.G
           /\ last' = Ran("neptune", "delete_all", "none", <<>>, fail,
                          IF r.raised THEN "QueryError" ELSE "no", r.result, <<>>, <<>>)
    /\ UNCHANGED index

\* one or two date arguments
OneDate == {<<d>> : d \in DateArgs}
TwoDates == {<<a, b>> : a \in DateArgs, b \in DateArgs}

NeptuneFindFails == {"none", "query", "unreachable"}
OSFindFails == {"none", "probe", "search"}
OSDeleteFails == {<<"none", 0>>, <<"search", 0>>, <<"delete", 1>>, <<"delete", 2>>}

NextCall ==
    \/ \E a \in OneDate, f \in NeptuneFindFails : RunNeptuneByDate(a[1], f) /\ OnlyStores
    \/ \E a \in TwoDates, f \in NeptuneFindFails :
          RunNeptuneByRange(a[1], a[2], f) /\ OnlyStores
    \/ \E a \in OneDate \cup TwoDates, f \in NeptuneFindFails :
          RunNeptuneFind(a, f) /\ OnlyStores
    \/ \E ix \in Indexes, a \in OneDate, f \in OSFindFails :
          RunOSByDate(ix, a[1], f) /\ OnlyStores
    \/ \E ix \in Indexes, a \in TwoDates, f \in OSFindFails :
          RunOSByRange(ix, a[1], a[2], f) /\ OnlyStores
    \/ \E ix \in Indexes, a \in OneDate \cup TwoDates, f \in OSFindFails :
          RunOSFind(ix, a, f) /\ OnlyStores
    \/ \E ix \in Indexes, p \in PaperIds, f \in OSDeleteFails :
          RunOSDeleteDocument(ix, p, f) /\ OnlyStores
    \/ \E f \in {"none"} \cup SeqRange(DeleteAllQueries) : RunDeleteAll(f) /\ OnlyStores

SpecCall == InitStores /\ [][NextCall]_vars

\* ------------------------------------------- summarize_deletion_results alone
\* the entries a results list may hold: a graph report, a search report, an
\* error entry, an entry with another status, an entry with no status
ResultEntries ==
    {[status |-> "success", paper_id |-> "A", deleted |-> <<0, 0, 1, 1, 1, 1>>,
      shared_nodes |-> [facts |-> 0, entities |-> 0]],
     [status |-> "success", paper_id |-> "B", deleted |-> 0],
     ErrorEntry("C"),
     [status |-> "completed", paper_id |-> "Z"],
     [paper_id |-> "Z"]}

\* the lists of at most n entries
RECURSIVE ResultLists(_)
ResultLists(n) ==
    IF n = 0 THEN {<<>>}
    ELSE ResultLists(n - 1)
         \cup {Append(l, e) : l \in {x \in ResultLists(n - 1) : Len(x) = n - 1},
                              e \in ResultEntries}

\* the keyword arguments the engines pass, and none
Contexts == {[date_range |-> <<D1, D2>>], [base_date |-> D1], <<>>}

InitSummary ==
    /\ G0 = [V |-> {}, E |-> {}]
    /\ G = G0
    /\ failures = 0
    /\ CallsIdle
    /\ StoresIdle
    /\ DatesIdle
    /\ arg \in {[fn |-> "summarize_deletion_results", results |-> l, context |-> c] :
                  l \in ResultLists(MaxResults), c \in Contexts}
    /\ out = NoCall

\* the static method of either client class; the two bodies are the same
Summarize(class) ==
    /\ out = NoCall
    /\ out' = [fn |-> "summarize_deletion_results", class |-> class,
               value |-> summarize_deletion_results(arg.results, arg.context)]
    /\ UNCHANGED arg

OnlyPure == UNCHANGED <<G, G0, failures, cvars, rvars, dvars>>

NextSummary ==
    \/ Summarize("NeptuneClient") /\ OnlyPure
    \/ Summarize("OpenSearchClient") /\ OnlyPure

SpecSummary == InitSummary /\ [][NextSummary]_vars

\* ------------------------------------------------------ calculate_date_range
\* config.cleaner.days_back and config.cleaner.days_range
config_days_back == 365
config_days_range == 7

\* datetime arithmetic: the proleptic Gregorian ordinal of a date and back
IsLeap(y) == (y % 4 = 0 /\ y % 100 # 0) \/ y % 400 = 0

DaysInMonth(y, m) ==
    IF m = 2 THEN (IF IsLeap(y) THEN 29 ELSE 28)
    ELSE IF m \in {4, 6, 9, 11} THEN 30 ELSE 31

DaysBeforeYear(y) == (y - 1) * 365 + (y - 1) \div 4 - (y - 1) \div 100 + (y - 1) \div 400

RECURSIVE DaysBeforeMonth(_, _)
DaysBeforeMonth(y, m) ==
    IF m = 1 THEN 0 ELSE DaysBeforeMonth(y, m - 1) + DaysInMonth(y, m - 1)

ToOrdinal(date) == DaysBeforeYear(date.year) + DaysBeforeMonth(date.year, date.month) + date.day

\* the years a datetime can hold
Years == 1..9999

FromOrdinal(n) ==
    LET y == CHOOSE yy \in Years : DaysBeforeYear(yy) < n /\ n <= DaysBeforeYear(yy + 1)
        m == CHOOSE mm \in 1..12 :
                 /\ DaysBeforeMonth(y, mm) < n - DaysBeforeYear(y)
                 /\ n - DaysBeforeYear(y) <= DaysBeforeMonth(y, mm) + DaysInMonth(y, mm)
    IN  [year |-> y, month |-> m, day |-> n - DaysBeforeYear(y) - DaysBeforeMonth(y, m)]

\* date - timedelta(days=n)
MinusDays(date, n) == FromOrdinal(ToOrdinal(date) - n)

DigitChars == <<"0", "1", "2", "3", "4", "5", "6", "7", "8", "9">>

\* the decimal digits of n, zero-padded to width characters
RECURSIVE Padded(_, _)
Padded(n, width) ==
    IF width = 0 THEN <<>>
    ELSE Append(Padded(n \div 10, width - 1), DigitChars[(n % 10) + 1])

\* date.strftime("%Y-%m-%d")
strftime(date) ==
    Padded(date.year, 4) \o <<"-">> \o Padded(date.month, 2) \o <<"-">> \o Padded(date.day, 2)

\* the number a string of digits denotes
RECURSIVE DigitsValue(_)
DigitsValue(str) ==
    IF str = <<>> THEN 0
    ELSE 10 * DigitsValue(SubSeq(str, 1, Len(str) - 1)) + (CharCode(str[Len(str)]) - 48)

\* datetime.strptime(str, "%Y-%m-%d") of a string of the shape dddd-dd-dd
strptime(str) ==
    [year |-> DigitsValue(SubSeq(str, 1, 4)),
     month |-> DigitsValue(SubSeq(str, 6, 7)),
     day |-> DigitsValue(SubSeq(str, 9, 10))]

\* an event value: absent (None), or given
Absent == [given |-> FALSE]
Given(v) == [given |-> TRUE, value |-> v]

\* calculate_date_range(target_date, days_back, days_range, config)
calculate_date_range(target_date, days_back, days_range) ==
    LET back == IF days_back.given THEN days_back.value ELSE config_days_back
        range == IF days_range.given THEN days_range.value ELSE config_days_range
        end_date == MinusDays(target_date, back)
        start_date == MinusDays(end_date, range)
    IN  <<strftime(start_date), strftime(end_date)>>

\* the event values an invocation supplies
TargetDateStrings ==
    {<<"2", "0", "2", "4", "-", "0", "3", "-", "0", "1">>,
     <<"2", "0", "2", "4", "-", "0", "1", "-", "0", "1">>,
     <<"2", "0", "2", "5", "-", "0", "1", "-", "0", "5">>}
TargetDateValues == {Absent} \cup {Given(t) : t \in TargetDateStrings \cup {NotADate}}
DaysBackValues == {Absent} \cup {Given(n) : n \in {0, 1, 31, 365, -1}}
DaysRangeValues == {Absent} \cup {Given(n) : n \in {0, 1, 7, 31, -1}}

\* the days on which the invocation may run (midnight UTC)
Todays == {[year |-> 2024, month |-> 3, day |-> 1], [year |-> 2025, month |-> 1, day |-> 1]}

InitEvent ==
    /\ G0 = [V |-> {}, E |-> {}]
    /\ G = G0
    /\ failures = 0
    /\ CallsIdle
    /\ StoresIdle
    /\ DatesIdle
    /\ arg \in {[fn |-> "lambda_handler", TARGET_DATE |-> t, DAYS_BACK |-> b,
                 DAYS_RANGE |-> r, target_date |-> Absent] :
                  t \in TargetDateValues, b \in DaysBackValues, r \in DaysRangeValues}
    /\ out = NoCall

\* parse_target_date: yesterday when no date is given; sys.exit(1) when the
\* string does not parse
ParseTargetDate(today) ==
    /\ arg.fn = "lambda_handler" /\ ~arg.target_date.given /\ out = NoCall
    /\ IF ~arg.TARGET_DATE.given
       THEN /\ arg' = [arg EXCEPT !.target_date = Given(MinusDays(today, 1))]
            /\ out' = out
       ELSE IF MatchesShape(arg.TARGET_DATE.value) /\ Len(arg.TARGET_DATE.value) = 10
       THEN /\ arg' = [arg EXCEPT !.target_date = Given(strptime(arg.TARGET_DATE.value))]
            /\ out' = out
       ELSE /\ arg' = arg
            /\ out' = [fn |-> "sys.exit"]

CalculateDateRange ==
    /\ arg.fn = "lambda_handler" /\ arg.target_date.given /\ out = NoCall
    /\ out' = [fn |-> "calculate_date_range",
               value |-> calculate_date_range(arg.target_date.value, arg.DAYS_BACK,
                                              arg.DAYS_RANGE)]
    /\ UNCHANGED arg

NextEvent ==
    \/ \E today \in Todays : ParseTargetDate(today) /\ OnlyPure
    \/ CalculateDateRange /\ OnlyPure

SpecEvent == InitEvent /\ [][NextEvent]_vars

\* ------------------------------------------------ _is_valid_date_format alone
DateSeeds ==
    {D2,
     <<"2", "0", "2", "4", "-", "1", "3", "-", "4", "0">>,
     <<"J", "a", "n", " ", "1", " ", "2", "0", "2", "4">>,
     <<>>}
EditChars == {"0", "9", "-", "a", " ", "\n"}

InitDate ==
    /\ G0 = [V |-> {}, E |-> {}]
    /\ G = G0
    /\ failures = 0
    /\ CallsIdle
    /\ StoresIdle
    /\ date_str \in DateSeeds
    /\ valid = "unset"
    /\ edits = 0
    /\ PureIdle

\* the caller's string differs from a seed in one character, ...
EditChar(i, ch) ==
    /\ valid = "unset" /\ edits < MaxEdits
    /\ i \in 1..Len(date_str) /\ date_str[i] # ch
    /\ date_str' = [date_str EXCEPT ![i] = ch]
    /\ edits' = edits + 1
    /\ UNCHANGED valid

\* ... has one more character, ...
AppendChar(ch) ==
    /\ valid = "unset" /\ edits < MaxEdits
    /\ date_str' = Append(date_str, ch)
    /\ edits' = edits + 1
    /\ UNCHANGED valid

\* ... or one less
DropChar ==
    /\ valid = "unset" /\ edits < MaxEdits
    /\ date_str # <<>>
    /\ date_str' = SubSeq(date_str, 1, Len(date_str) - 1)
    /\ edits' = edits + 1
    /\ UNCHANGED valid

Validate ==
    /\ valid = "unset"
    /\ valid' = IF is_valid_date_format(date_str) THEN "True" ELSE "False"
    /\ UNCHANGED <<date_str, edits>>

\* the stores are not touched
OnlyDates == UNCHANGED <<G, G0, failures, cvars, rvars, pvars>>

NextDate ==
    \/ \E i \in 1..11, ch \in EditChars : EditChar(i, ch) /\ OnlyDates
    \/ \E ch \in EditChars : AppendChar(ch) /\ OnlyDates
    \/ DropChar /\ OnlyDates
    \/ Validate /\ OnlyDates

SpecDate == InitDate /\ [][NextDate]_vars


\* =================================================================== claims
\* vocabulary of the claims, read off the graph as ingestion built it
Supported(Gr, f) == {s \in Statements : <<f, "__SUPPORTS__", s>> \in Gr.E}
FactsOf(Gr, d) == {f \in Facts \cap Gr.V : \E s \in Supported(Gr, f) : OwnerOf(s) = d}
EntitiesOfFact(Gr, f) ==
    {e \in Entities \cap Gr.V :
        <<f, "__SUBJECT__", e>> \in Gr.E \/ <<f, "__OBJECT__", e>> \in Gr.E}
EntitiesOf(Gr, d) == UNION {EntitiesOfFact(Gr, f) : f \in FactsOf(Gr, d)}
FactsAbout(Gr, e) == {f \in Facts \cap Gr.V : e \in EntitiesOfFact(Gr, f)}
OwnTiers(Gr, d) == {v \in Gr.V \ (Facts \cup Entities) : OwnerOf(v) = d}
SubgraphOf(Gr, d) == OwnTiers(Gr, d) \cup FactsOf(Gr, d) \cup EntitiesOf(Gr, d)

\* every Fact of d supports Statements of d only, and every Entity of d is the
\* subject/object of exactly one Fact
FullyExclusive(Gr, d) ==
    /\ \A f \in FactsOf(Gr, d) : \A s \in Supported(Gr, f) : OwnerOf(s) = d
    /\ \A e \in EntitiesOf(Gr, d) : Cardinality(FactsAbout(Gr, e)) = 1

\* the documents some delete_document call was started for
Targeted == {paper_id[c] : c \in {x \in Calls : pc[x] # "idle"}}

\* call c is the only call so far, and it returned a report
AloneDone(c) == pc[c] = "done" /\ \A d \in Calls \ {c} : pc[d] = "idle"

TierIndex(v) ==
    CASE v \in Entities -> 1 [] v \in Facts -> 2 [] v \in Statements -> 3
      [] v \in Topics -> 4 [] v \in Chunks -> 5 [] v \in Sources -> 6

TierOf(entity_type) == CHOOSE i \in 1..Len(execution_order) : execution_order[i] = entity_type

\* C1 (as claimed): after a successful delete_document(d) on a document whose
\* subgraph is fully exclusive, nothing of d's Source, Chunks, Topics,
\* Statements, Facts or Entities is left in the graph and the report has
\* shared_nodes = {facts: 0, entities: 0}.
C1_ExclusiveSubgraphRemoved ==
    \A c \in Calls :
        (AloneDone(c) /\ paper_id[c] \in Docs /\ FullyExclusive(G0, paper_id[c]))
        => /\ SubgraphOf(G0, paper_id[c]) \cap G.V = {}
           /\ report[c].shared_nodes = [facts |-> 0, entities |-> 0]

\* C2: in every state, a Fact that supports a Statement of a document no
\* delete_document call was started for is still in the graph; in particular a
\* Fact shared by A and B survives delete_document(A) alone.
C2_SharedFactPreserved ==
    \A f \in Facts \cap G0.V :
        (\E s \in Supported(G0, f) : OwnerOf(s) \notin Targeted) => f \in G.V

C2_Witness ==
    \E c \in Calls, f \in Facts :
        /\ AloneDone(c) /\ paper_id[c] = "A"
        /\ \E s \in Supported(G0, f) : OwnerOf(s) = "A"
        /\ \E s \in Supported(G0, f) : OwnerOf(s) = "B"
        /\ f \in G.V /\ "sA" \notin G.V

\* entity e is the subject/object of a Fact of document d and of a Fact of
\* another document
SharedEntity(Gr, e, d) ==
    /\ e \in EntitiesOf(Gr, d)
    /\ \E d2 \in Docs \ {d} : e \in EntitiesOf(Gr, d2)

\* C3: after delete_document(d) alone has returned, an Entity that is the
\* subject/object of a Fact of d and of a Fact of another document is still in
\* the graph, and the report has shared_nodes.entities >= 1.
C3_SharedEntityPreserved ==
    \A c \in Calls, e \in Entities :
        (AloneDone(c) /\ paper_id[c] \in Docs /\ SharedEntity(G0, e, paper_id[c]))
        => e \in G.V /\ report[c].shared_nodes.entities >= 1

C3_Witness ==
    \E c \in Calls :
        /\ AloneDone(c) /\ paper_id[c] = "A"
        /\ SharedEntity(G0, "e1", "A")
        /\ "e1" \in G.V /\ "sA" \notin G.V
        /\ report[c].shared_nodes.entities = 1

\* no query of call c failed
NoFailure(c) ==
    /\ failed_at[c] = "none"
    /\ ~connection_stats[c].connected_facts.err
    /\ ~connection_stats[c].connected_entities.err

DropsIn(l) == {i \in 1..Len(l) : l[i][1] = "drop"}

\* C4: a delete_document call on a non-empty id with no Source vertex (never
\* ingested, or already deleted) issues no drop query and removes nothing, and
\* when none of its queries fails it ends with status "success" and deleted
\* counts 0 for all six tiers instead of raising.
C4_MissingDocumentIsNoOp ==
    \A c \in Calls :
        (pc[c] # "idle" /\ paper_id[c] # "" /\ ~found[c])
        => /\ DropsIn(log[c]) = {} /\ dropped[c] = {}
           /\ (pc[c] \in Finished /\ NoFailure(c))
              => /\ pc[c] = "done"
                 /\ report[c].status = "success"
                 /\ report[c].deleted = <<0, 0, 0, 0, 0, 0>>

\* a second delete_document of an id whose first deletion completed
C4_Witness ==
    /\ pc[1] = "done" /\ pc[2] = "done"
    /\ paper_id[1] = "A" /\ paper_id[2] = "A" /\ ~found[2]
    /\ report[2].deleted = <<0, 0, 0, 0, 0, 0>>

\* C9: when delete_document(A) and delete_document(B) have both completed, in
\* whatever order their queries interleaved, an Entity that is the
\* subject/object of a Fact of A and of a Fact of B is still in the graph.
C9_ConcurrentSharedEntitySurvives ==
    \A e \in Entities :
        (/\ pc[1] = "done" /\ pc[2] = "done"
         /\ {paper_id[1], paper_id[2]} = {"A", "B"}
         /\ e \in EntitiesOf(G0, "A") /\ e \in EntitiesOf(G0, "B"))
        => e \in G.V

C9_Witness ==
    /\ overlapped
    /\ pc[1] = "done" /\ pc[2] = "done"
    /\ {paper_id[1], paper_id[2]} = {"A", "B"}
    /\ "e1" \in EntitiesOf(G0, "A") /\ "e1" \in EntitiesOf(G0, "B")
    /\ "e1" \in G.V /\ "sA" \notin G.V /\ "sB" \notin G.V

\* C10: when the count or drop query of tier k fails, the call has raised, the
\* failed query is the last one it issued, the tiers before k were all
\* processed and what they removed is still gone, and nothing of tier k or a
\* later tier was removed by the call.
C10_FailureAbortsWithoutRollback ==
    \A c \in Calls :
        failed_at[c] # "none"
        => LET k == TierOf(failed_at[c]) IN
           /\ pc[c] = "raised"
           /\ log[c][Len(log[c])][2] = failed_at[c]
           /\ \A i \in 1..Len(log[c]) :
                 log[c][i][1] # "stat" => TierOf(log[c][i][2]) <= k
           /\ Len(results[c]) = k - 1
           /\ dropped[c] \cap G.V = {}
           /\ \A v \in dropped[c] : TierIndex(v) < k

\* the topics query fails after the statements were dropped
C10_Witness ==
    \E c \in Calls :
        /\ failed_at[c] = "topics" /\ pc[c] = "raised"
        /\ \E v \in dropped[c] : v \in Statements
        /\ \E v \in Topics \cap G.V : OwnerOf(v) = paper_id[c]

\* C5 (as claimed): for valid dates A <= B, a failure-free graph
\* delete_documents_by_date_range(A, B) resolves and deletes exactly the
\* documents whose Source base_date d satisfies A <= d <= B, both bounds
\* inclusive; with A = B exactly the documents dated A.
C5_RangeDeletesInclusive ==
    (last.engine = "neptune" /\ last.op = "range" /\ ~last.failed)
    => LET due == {d \in DocsIn(last.G_before) :
                      /\ StrLeq(last.args[1], base_date[d])
                      /\ StrLeq(base_date[d], last.args[2])}
       IN  /\ last.raised = "no"
           /\ SeqRange(last.ids) = due
           /\ DocsIn(last.G_before) \ DocsIn(G) = due

\* an id of the last batch whose deletion is known to raise: the empty id, and,
\* in the graph, an id whose statistics query or first count query fails
KnownToRaise(i) ==
    \/ last.args[i] = ""
    \/ /\ last.engine = "neptune"
       /\ last.fails[i] \in {<<"stat", "connected_entities">>, <<"count", "entities">>}

\* the document of position i of the last batch is gone from the store
GoneAfterBatch(i) ==
    IF last.engine = "neptune" THEN last.args[i] \notin DocsIn(G)
    ELSE last.index_before[last.ix].recs[last.args[i]] <= DefaultSize
         => index[last.ix].recs[last.args[i]] = 0

\* C6: for both engines, batch_delete_documents(ids) returns exactly one entry
\* per input id, in input order; an id whose deletion raises yields an entry
\* {status: "error", paper_id, error}, and every later id is still processed:
\* an existing document that meets no failure is deleted and reported.
C6_BatchOneEntryPerId ==
    (last.engine # "none" /\ last.op = "batch")
    => /\ Len(last.results) = Len(last.args)
       /\ \A i \in DOMAIN last.args :
            /\ last.results[i].paper_id = last.args[i]
            /\ KnownToRaise(i)
               => /\ last.results[i].status = "error"
                  /\ DOMAIN last.results[i] = {"status", "paper_id", "error"}
            /\ ( /\ last.args[i] \in Docs
                 /\ last.fails[i] = (IF last.engine = "neptune" THEN NoFail
                                     ELSE <<"none", 0>>)
                 /\ last.engine = "opensearch" => index[last.ix].exists )
               => /\ last.results[i].status = "success"
                  /\ GoneAfterBatch(i)

\* a graph batch in which an id raised and a later, existing id was deleted
C6_Witness ==
    /\ last.engine = "neptune" /\ last.op = "batch"
    /\ \E j, i \in DOMAIN last.args :
          /\ j < i
          /\ KnownToRaise(j) /\ last.results[j].status = "error"
          /\ last.args[i] \in DocsIn(last.G_before) \ DocsIn(G)
          /\ last.results[i].status = "success"

\* C7 (as claimed): when delete_documents_by_date_range(A, B) runs twice in
\* succession with no store failure and nothing ingested in between, the second
\* run reports 0 deletions with status "success" and leaves the store exactly
\* as the first run left it.
C7_SecondRangeRunIsNoOp ==
    ( /\ nruns >= 2
      /\ last.op = "range" /\ prev.op = "range"
      /\ last.engine = prev.engine /\ last.ix = prev.ix /\ last.args = prev.args
      /\ ~last.failed /\ ~prev.failed )
    => /\ last.raised = "no"
       /\ last.result.status = "success"
       /\ IF last.engine = "neptune" THEN last.result.deleted_count = 0
          ELSE last.result.deleted = 0
       /\ G = last.G_before
       /\ index = last.index_before

Str_2024_01_01 == <<"2", "0", "2", "4", "-", "0", "1", "-", "0", "1">>
Str_2024_13_40 == <<"2", "0", "2", "4", "-", "1", "3", "-", "4", "0">>
Str_Jan_1_2024 == <<"J", "a", "n", " ", "1", " ", "2", "0", "2", "4">>

\* C8 (as claimed): _is_valid_date_format accepts "2024-01-01" and rejects
\* "2024-13-40", "Jan 1 2024" and the empty string.
C8_ValidatorExamples ==
    valid # "unset"
    => /\ date_str = Str_2024_01_01 => valid = "True"
       /\ date_str \in {Str_2024_13_40, Str_Jan_1_2024, <<>>} => valid = "False"

\* a touch-stat query of call c failed, and no tier query did
StatFailedOnly(c) ==
    /\ pc[c] \in Finished /\ paper_id[c] # ""
    /\ failed_at[c] = "none"
    /\ connection_stats[c].connected_facts.err \/ connection_stats[c].connected_entities.err

\* C11 (as claimed): when a touch-stat query fails while every tier query
\* succeeds, delete_document still processes all six tiers and returns a
\* report with status "success" instead of raising.
C11_StatFailureStillSucceeds ==
    \A c \in Calls :
        StatFailedOnly(c)
        => /\ Len(results[c]) = Len(execution_order)
           /\ pc[c] = "done"
           /\ report[c].status = "success"

\* the end date the last Cleaner run used: end_date=None means start_date
CleanerEnd == IF last.args[2] = None THEN last.args[1] ELSE last.args[2]

\* what the range deletion of index ix does on its own in the last Cleaner run
IndexAlone(ix) ==
    OSDeleteByDateRange(last.index_before[ix], base_date, last.args[1], CleanerEnd,
                        last.fails.opensearch[ix], <<"none", 0>>)

\* C12: in Cleaner.delete_documents_by_date_range, when the graph step has
\* returned, the result holds exactly one entry per configured index name; an
\* index whose range deletion raises gets {status: "error", error} for that
\* index only, every other index is processed and keeps its own result, and
\* the graph result is returned unchanged.
C12_OneEntryPerIndex ==
    (last.engine = "cleaner" /\ last.raised = "no")
    => /\ DOMAIN last.result.opensearch = SeqRange(opensearch_indexes)
       /\ \A ix \in SeqRange(opensearch_indexes) :
            /\ index[ix] = IndexAlone(ix).index
            /\ IF IndexAlone(ix).raised # "no"
               THEN /\ last.result.opensearch[ix].status = "error"
                    /\ DOMAIN last.result.opensearch[ix] = {"status", "error"}
               ELSE last.result.opensearch[ix] = IndexAlone(ix).result
       /\ last.result.neptune =
            NeptuneDeleteByDateRange(last.G_before, base_date, last.args[1], CleanerEnd,
                                     last.fails.neptune, NoFail).result

\* the first index raised and the second one still deleted its records
C12_Witness ==
    /\ last.engine = "cleaner" /\ last.raised = "no"
    /\ IndexAlone("chunk").raised # "no"
    /\ last.result.opensearch["chunk"].status = "error"
    /\ last.result.opensearch["statement"].status = "completed"
    /\ \E d \in Docs : index["statement"].recs[d] < last.index_before["statement"].recs[d]

\* C13 (as claimed): a failure of the graph backend that is not a connectivity
\* failure (a query error while resolving ids) does not block the search
\* backends: every configured index is still processed and the returned result
\* holds the graph outcome together with each index's result.
C13_GraphQueryErrorDoesNotBlock ==
    (last.engine = "cleaner" /\ last.fails.neptune = "query"
       /\ is_valid_date_format(last.args[1]) /\ is_valid_date_format(CleanerEnd))
    => /\ last.raised = "no"
       /\ DOMAIN last.result.opensearch = SeqRange(opensearch_indexes)
       /\ \A ix \in SeqRange(opensearch_indexes) : index[ix] = IndexAlone(ix).index

\* the positions of a results list whose entry has status "success"
SuccessAt(res) ==
    {i \in DOMAIN res : "status" \in DOMAIN res[i] /\ res[i].status = "success"}

\* C14: for every list of per-document results, summarize_deletion_results
\* returns status "completed", total_documents = number of results,
\* deleted_count = number of results with status "success", error_count =
\* total_documents - deleted_count, details = the list unchanged, plus the
\* context keys; so deleted_count + error_count = total_documents.
C14_SummaryCounts ==
    out.fn = "summarize_deletion_results"
    => /\ out.value.status = "completed"
       /\ out.value.total_documents = Len(arg.results)
       /\ out.value.deleted_count = Cardinality(SuccessAt(arg.results))
       /\ out.value.error_count = out.value.total_documents - out.value.deleted_count
       /\ out.value.deleted_count + out.value.error_count = out.value.total_documents
       /\ out.value.details = arg.results
       /\ \A k \in DOMAIN arg.context : out.value[k] = arg.context[k]
       /\ DOMAIN out.value = DOMAIN arg.context
             \cup {"status", "total_documents", "deleted_count", "error_count", "details"}

\* a summary of a list that mixes success entries with other entries
C14_Witness ==
    /\ out.fn = "summarize_deletion_results"
    /\ 0 < out.value.deleted_count
    /\ out.value.deleted_count < out.value.total_documents
    /\ out.value.total_documents = MaxResults
    /\ "date_range" \in DOMAIN out.value

\* the last call was OpenSearchClient.delete_document on a document with
\* records in an existing index, and its search did not fail
DeletedSomeRecords ==
    /\ last.engine = "opensearch" /\ last.op = "delete_document"
    /\ last.args[1] \in Docs
    /\ last.index_before[last.ix].exists
    /\ last.index_before[last.ix].recs[last.args[1]] > 0
    /\ last.fail[1] # "search"

\* C15 (as claimed): OpenSearchClient.delete_document(id) issues one delete
\* per matched record, a failed delete does not stop the remaining ones, and
\* the result has total = number of matched records and deleted = number of
\* deletes that succeeded, so 0 <= deleted <= total and exactly total - deleted
\* matched records remain.
C15_OSDeleteDocumentCounts ==
    DeletedSomeRecords
    => LET matched == last.index_before[last.ix].recs[last.args[1]]
           refused == IF last.fail[1] = "delete" THEN Min(last.fail[2], matched) ELSE 0
       IN  /\ last.raised = "no"
           /\ last.result.status = "success"
           /\ last.result.total = matched
           /\ last.result.deleted = matched - refused
           /\ 0 <= last.result.deleted /\ last.result.deleted <= last.result.total
           /\ index[last.ix].recs[last.args[1]] = last.result.total - last.result.deleted

\* the last call resolved ids in a search index, with dates that validate
OSResolved ==
    /\ last.engine = "opensearch" /\ last.op \in {"by_date", "range", "find"}
    /\ AllValid(last.args)

\* C16: the search engine probes index existence before every id-resolution
\* query; when the index does not exist, resolution returns no id without
\* issuing a search, and delete_documents_by_date(_range) returns a
\* zero-deletion success result rather than an error.
C16_MissingIndexIsEmpty ==
    OSResolved
    => /\ last.calls # <<>> /\ last.calls[1] = "exists"
       /\ \A i \in DOMAIN last.calls : last.calls[i] = "search" => i > 1
       /\ ~last.index_before[last.ix].exists
          => /\ last.calls = <<"exists">>
             /\ last.ids = <<>>
             /\ last.raised = "no"
             /\ index = last.index_before
             /\ last.op # "find"
                => last.result.status = "success" /\ last.result.deleted = 0

\* a range deletion on a missing index, over dates that documents carry
C16_Witness ==
    /\ OSResolved /\ last.op = "range"
    /\ ~last.index_before[last.ix].exists
    /\ last.fail = "none"
    /\ last.result.status = "success"
    /\ \E d \in Docs : Between(base_date[d], last.args[1], last.args[2])

\* C17 (as claimed): when a store is unreachable as range deletion starts (the
\* first remote call of id resolution fails with a connectivity failure), the
\* engine's delete_documents_by_date_range propagates the failure and returns
\* no result with status "success"; for the graph and for the search engine.
C17_UnreachableStorePropagates ==
    ( /\ last.engine \in {"neptune", "opensearch"} /\ last.op = "range"
      /\ AllValid(last.args)
      /\ last.fail = (IF last.engine = "neptune" THEN "unreachable" ELSE "probe") )
    => /\ last.raised # "no"
       /\ last.result.status # "success"

\* C18: for both engines, delete_documents_by_date, delete_documents_by_date_range
\* and the id-resolution helpers raise a validation error when a date argument
\* fails validation, before any query is sent, so the store is unchanged.
C18_InvalidDateRefusedFirst ==
    ( /\ last.engine \in {"neptune", "opensearch"}
      /\ last.op \in {"by_date", "range", "find"}
      /\ ~AllValid(last.args) )
    => /\ last.raised = "ValueError"
       /\ last.calls = <<>>
       /\ G = last.G_before
       /\ index = last.index_before

\* a graph range deletion whose start date validates and whose end date does not
C18_Witness ==
    /\ last.engine = "neptune" /\ last.op = "range"
    /\ is_valid_date_format(last.args[1]) /\ ~is_valid_date_format(last.args[2])
    /\ \E d \in Docs : base_date[d] = last.args[1]
    /\ last.raised = "ValueError"

\* C19: NeptuneClient.delete_all_documents never raises: when every query
\* succeeds the graph has no vertex and no edge afterwards and the result
\* reports the vertex and edge counts observed before the wipe; when a query
\* fails it returns {status: "error", total_documents: 0, deleted_count: 0,
\* error_count: 0, error}.
C19_DeleteAllNeverRaises ==
    (last.engine = "neptune" /\ last.op = "delete_all")
    => /\ last.raised = "no"
       /\ IF last.fail = "none"
          THEN /\ G = EmptyGraph
               /\ last.result.vertices_deleted = Cardinality(last.G_before.V)
               /\ last.result.edges_deleted = Cardinality(last.G_before.E)
          ELSE /\ last.result.status = "error"
               /\ last.result.total_documents = 0
               /\ last.result.deleted_count = 0
               /\ last.result.error_count = 0
               /\ DOMAIN last.result = {"status", "error", "total_documents",
                                        "deleted_count", "error_count"}

\* a wipe of a graph that held vertices and edges
C19_Witness ==
    /\ last.engine = "neptune" /\ last.op = "delete_all" /\ last.fail = "none"
    /\ G = EmptyGraph
    /\ last.result.vertices_deleted > 0 /\ last.result.edges_deleted > 0

\* the lookback and the window of the invocation: the event value if given
Lookback == IF arg.DAYS_BACK.given THEN arg.DAYS_BACK.value ELSE config_days_back
Window == IF arg.DAYS_RANGE.given THEN arg.DAYS_RANGE.value ELSE config_days_range

\* C20 (as claimed): calculate_date_range computes end_date = target_date -
\* lookback days and start_date = end_date - window days (event values override
\* the configured defaults, an explicit 0 included), and start_date <= end_date
\* for every lookback and window value the invocation can supply.
C20_WindowIsOrdered ==
    out.fn = "calculate_date_range"
    => /\ ToOrdinal(strptime(out.value[2])) = ToOrdinal(arg.target_date.value) - Lookback
       /\ ToOrdinal(strptime(out.value[1])) = ToOrdinal(strptime(out.value[2])) - Window
       /\ is_valid_date_format(out.value[1]) /\ is_valid_date_format(out.value[2])
       /\ StrLeq(out.value[1], out.value[2])

\* the order the unit promises for the tiers, written out
PromisedOrder == <<"entities", "facts", "statements", "topics", "chunks", "source">>
PromisedRank(entity_type) ==
    CHOOSE i \in 1..Len(PromisedOrder) : PromisedOrder[i] = entity_type

\* the queries of a log that are tier queries (count or drop)
TierQueries(l) == {i \in 1..Len(l) : l[i][1] # "stat"}

\* C21: in every execution of delete_document the two touch-stat queries are
\* the first two queries issued (connected_facts, then connected_entities),
\* before any tier query; the tier queries come strictly in the order
\* entities, facts, statements, topics, chunks, source, a tier's drop directly
\* after its own count and the count of a tier only after the drop (if any) of
\* the tier before it; a drop of the Source vertex is the last query of the call.
C21_QueriesInTierOrder ==
    \A c \in Calls :
        LET l == log[c] IN
        /\ \A i \in 1..Len(l) :
              /\ l[i][1] = "stat" <=> i <= 2
              /\ i = 1 => l[i] = <<"stat", "connected_facts">>
              /\ i = 2 => l[i] = <<"stat", "connected_entities">>
        /\ \A i \in TierQueries(l) :
              /\ l[i][1] = "drop" => i - 1 \in TierQueries(l) /\ l[i - 1] = <<"count", l[i][2]>>
              /\ l[i][1] = "count" /\ i - 1 \in TierQueries(l)
                 => PromisedRank(l[i][2]) = PromisedRank(l[i - 1][2]) + 1
              /\ l[i][1] = "count" /\ i - 1 \notin TierQueries(l)
                 => l[i][2] = "entities"
              /\ l[i] = <<"drop", "source">> => i = Len(l)

\* a call that dropped four tiers, the Source vertex last
C21_Witness ==
    \E c \in Calls :
        /\ pc[c] = "done" /\ NoFailure(c)
        /\ Len(log[c]) = 12
        /\ log[c][Len(log[c])] = <<"drop", "source">>
        /\ {log[c][i][2] : i \in DropsIn(log[c])} = {"statements", "topics", "chunks", "source"}

\* the vertices of tier k among those the drops of call c removed
DroppedOfTier(c, k) == {v \in dropped[c] : TierIndex(v) = k}

\* C22 (as claimed): when a delete_document call that ran alone has returned
\* its report, the deleted count of each tier equals the number of distinct
\* vertices the drop of that tier removed; a Topic mentioned in two Chunks of
\* the document counts once in deleted.topics.
C22_DeletedCountsDistinctVertices ==
    \A c \in Calls :
        (AloneDone(c) /\ NoFailure(c))
        => \A k \in 1..Len(execution_order) :
              report[c].deleted[k] = Cardinality(DroppedOfTier(c, k))

\* the Facts (Entities) of document d that some other document references too
FactsSharedBy(Gr, d) ==
    {f \in FactsOf(Gr, d) : \E d2 \in Docs \ {d} : f \in FactsOf(Gr, d2)}
EntitiesSharedBy(Gr, d) == {e \in EntitiesOf(Gr, d) : SharedEntity(Gr, e, d)}

\* C23 (as claimed): when delete_document(d), run alone without a failed
\* query, has returned, shared_nodes.facts and shared_nodes.entities are
\* non-negative and equal the number of Facts (Entities) that were reachable
\* from d before the call, are still in the graph after it, and are referenced
\* by more than one document's subgraph.
C23_SharedNodesCountsSharedSurvivors ==
    \A c \in Calls :
        (AloneDone(c) /\ NoFailure(c) /\ paper_id[c] \in Docs)
        => /\ report[c].shared_nodes.facts >= 0
           /\ report[c].shared_nodes.entities >= 0
           /\ report[c].shared_nodes.facts =
                 Cardinality(FactsSharedBy(G0, paper_id[c]) \cap G.V)
           /\ report[c].shared_nodes.entities =
                 Cardinality(EntitiesSharedBy(G0, paper_id[c]) \cap G.V)

\* call c issued a drop that removed nothing: the rows its count had seen were
\* gone by the time the drop ran
StaleDrop(c) ==
    \E i \in DropsIn(log[c]) :
        /\ failed_at[c] # log[c][i][2]
        /\ DroppedOfTier(c, TierOf(log[c][i][2])) = {}

\* C24: while delete_document(A) and delete_document(B) run, however their
\* queries interleave, and when both have returned, every Fact or Entity that
\* a third document C, which no call deletes, references as well is in the
\* graph; both calls report success; and a call whose drop matched no row,
\* because another call had removed the rows since the count, has not raised.
C24_ThirdDocumentNodesSurviveOverlap ==
    /\ Targeted \subseteq {"A", "B"}
       => /\ \A f \in FactsOf(G0, "C") : f \in G.V
          /\ \A e \in EntitiesOf(G0, "C") : e \in G.V
    /\ (/\ pc[1] = "done" /\ pc[2] = "done"
        /\ {paper_id[1], paper_id[2]} = {"A", "B"})
       => \A c \in Calls : report[c].status = "success"
    /\ \A c \in Calls :
          (StaleDrop(c) /\ NoFailure(c)) => pc[c] # "raised"

\* A and B overlapped, and a Fact and an Entity that all three documents
\* reference are still there
C24_Witness ==
    /\ overlapped
    /\ pc[1] = "done" /\ pc[2] = "done"
    /\ {paper_id[1], paper_id[2]} = {"A", "B"}
    /\ \E f \in FactsOf(G0, "C") :
          f \in FactsOf(G0, "A") /\ f \in FactsOf(G0, "B") /\ f \in G.V
    /\ \E e \in EntitiesOf(G0, "C") :
          e \in EntitiesOf(G0, "A") /\ e \in EntitiesOf(G0, "B") /\ e \in G.V
    /\ "sA" \notin G.V /\ "sB" \notin G.V

\* no delete_document call is in progress
Quiescent == \A c \in Calls : pc[c] \in Finished \cup {"idle"}

\* the subject/object edges of Fact f
EntityEdgesOf(Gr, f) ==
    {e \in Gr.E : e[1] = f /\ e[2] \in {"__SUBJECT__", "__OBJECT__"}}

\* C25: after any sequence of delete_document calls, returned or raised, every
\* Fact still in the graph still has every Entity it had as subject or object,
\* with the edge to it; in particular an Entity whose only Fact is shared with
\* another document is preserved.
C25_SurvivingFactsKeepEntities ==
    Quiescent
    => \A f \in Facts \cap G.V :
          /\ EntitiesOfFact(G0, f) \subseteq G.V
          /\ EntityEdgesOf(G0, f) \subseteq G.E

\* delete_document(A) returned; f1 is shared by A and B and is the only Fact
\* of its subject e1
C25_Witness ==
    \E c \in Calls :
        /\ AloneDone(c) /\ paper_id[c] = "A" /\ "sA" \notin G.V
        /\ "f1" \in FactsOf(G0, "A") /\ "f1" \in FactsOf(G0, "B")
        /\ FactsAbout(G0, "e1") = {"f1"}
        /\ "f1" \in G.V /\ "e1" \in G.V

\* no Fact supports zero Statements, no Entity is the subject/object of zero Facts
NoOrphans(Gr) ==
    /\ \A f \in Facts \cap Gr.V : Supported(Gr, f) \cap Gr.V # {}
    /\ \A e \in Entities \cap Gr.V : FactsAbout(Gr, e) # {}

\* C26 (as claimed): when delete_document, run alone without a failed query on
\* a graph without orphans, has returned, the graph has no orphan: no Fact
\* that supports zero Statements and no Entity that is the subject or object
\* of zero Facts.
C26_NoOrphansAfterDelete ==
    \A c \in Calls :
        (AloneDone(c) /\ NoFailure(c) /\ NoOrphans(G0)) => NoOrphans(G)

\* the documents that reference Fact f (Entity e)
OwnersOfFact(Gr, f) == {OwnerOf(s) : s \in Supported(Gr, f)}
OwnersOfEntity(Gr, e) == UNION {OwnersOfFact(Gr, f) : f \in FactsAbout(Gr, e)}

\* delete_document ran to its report for A and for B, one call after the other
BothDeletedInTurn ==
    /\ pc[1] = "done" /\ pc[2] = "done" /\ ~overlapped
    /\ NoFailure(1) /\ NoFailure(2)
    /\ {paper_id[1], paper_id[2]} = {"A", "B"}

\* C27 (as claimed): after delete_document(A) and delete_document(B) have
\* returned one after the other, in either order, a Fact or Entity that A and
\* B shared and no other document references is no longer in the graph.
C27_SharedNodeGoesWithLastOwner ==
    BothDeletedInTurn
    => /\ \A f \in Facts \cap G0.V : OwnersOfFact(G0, f) = {"A", "B"} => f \notin G.V
       /\ \A e \in Entities \cap G0.V : OwnersOfEntity(G0, e) = {"A", "B"} => e \notin G.V

\* the first call failed at a tier query and ended; then a second call for the
\* same document ran to its report
Resumed ==
    /\ failed_at[1] # "none" /\ pc[1] \in Finished
    /\ pc[2] = "done" /\ NoFailure(2) /\ ~overlapped
    /\ paper_id[2] = paper_id[1]

\* C28: when delete_document(d) ended on a failed count or drop query of some
\* tier and a later delete_document(d) returned its report, the graph equals
\* the graph a single delete_document(d) without a failure leaves when run on
\* the original graph.
C28_RerunCompletesTheDeletion ==
    Resumed => G = NeptuneDeleteDocument(G0, paper_id[1], NoFail).G

\* the first call failed at the topics tier, after it had dropped the
\* Statements; the second one removed the rest
C28_Witness ==
    /\ Resumed /\ pc[1] = "raised" /\ paper_id[1] = "A"
    /\ failed_at[1] = "topics" /\ "stA1" \in dropped[1]
    /\ dropped[2] = {"tA", "cA1", "cA2", "sA"}
    /\ G = NeptuneDeleteDocument(G0, "A", NoFail).G

\* the graph and every index hold the same documents (base_date is one
\* assignment for both stores)
SameDocuments(Gr, idx) ==
    \A ix \in Indexes :
        /\ idx[ix].exists
        /\ {d \in Docs : idx[ix].recs[d] > 0} = DocsIn(Gr)

\* C29 (as claimed): when the graph and every index hold the same documents
\* with the same base_date values, a Cleaner.delete_documents_by_date_range
\* (start, end) run in which nothing fails resolves the same set of ids in the
\* graph and in every index, and afterwards a document is absent from the
\* graph exactly when it is absent from every index.
C29_StoresResolveTheSameIds ==
    (/\ last.engine = "cleaner" /\ ~last.failed /\ last.raised = "no"
     /\ SameDocuments(last.G_before, last.index_before))
    => /\ \A ix \in Indexes :
             SeqRange(OSFindByDateRange(last.index_before[ix], base_date,
                                        last.args[1], CleanerEnd, "none"))
             = SeqRange(NeptuneFindByDateRange(last.G_before, base_date,
                                               last.args[1], CleanerEnd))
       /\ \A d \in Docs, ix \in Indexes : d \notin DocsIn(G) <=> index[ix].recs[d] = 0

\* C30 (as claimed): when OpenSearchClient.delete_document(id) returns status
\* "success" with deleted = total, or with deleted 0 and no total because no
\* record matched, the index holds no record of that document id, however many
\* it held before, and holds every record of every other document id.
C30_OSDeleteDocumentIsComplete ==
    (/\ last.engine = "opensearch" /\ last.op = "delete_document"
     /\ last.raised = "no" /\ last.result.status = "success"
     /\ "total" \in DOMAIN last.result => last.result.deleted = last.result.total)
    => /\ RecsOf(index[last.ix], last.args[1]) = 0
       /\ \A d \in Docs \ {last.args[1]} :
             index[last.ix].recs[d] = last.index_before[last.ix].recs[d]

====
